---- MODULE Spec2Model ----
(***************************************************************************)
(* Client-side request pipeline of the voice chat assistant: the TTL cache *)
(* (utils/cache), the error classifier (utils/errorHandler) and the        *)
(* resilient API client (utils/apiClient).                                 *)
(*                                                                         *)
(* Text is a sequence of UTF-16 code units.  A JavaScript value is a       *)
(* record [t, v]: t is the type tag, v the code units of a string.         *)
(* Each await of the client is one step.  Under Spec the calls follow one  *)
(* another; the ErrorHandler functions are also evaluated on their own,    *)
(* before any call is made.                                                *)
(***************************************************************************)
EXTENDS Integers, Sequences, FiniteSets, TLC

VARIABLES
    now,        \* Date.now(), in ms; it advances in steps of TickStep, and how
                \* long a fetch or a sleep takes against it is left open
    storage,    \* Cache.storage: Map key -> CacheItem
    calls,      \* the ApiClient calls: slot -> call record
    started,    \* number of calls made so far
    fn          \* the last direct evaluation of an ErrorHandler function

vars == <<now, storage, calls, started, fn>>

-----------------------------------------------------------------------------
(* Bounds of the model *)

MaxRetryAttempts == 5      \* largest retryAttempts argument tried
MaxCalls == 2              \* calls made in one run
MaxTicks == 3              \* clock steps of TickStep in one run
MaxAttemptArg == 12        \* largest attempt given to getRetryDelay directly
MaxConcRetry == 1          \* largest retryAttempts of calls that overlap
MaxFairRetry == 1          \* largest retryAttempts of calls followed to their end
MaxRecordings == 1         \* recordings made in one run of the App
MaxAppRetries == 1         \* clicks on Retry in one run of the App
MaxFrames == 62            \* longest decoded audio given to compressAudio, in frames

-----------------------------------------------------------------------------
(* JavaScript values *)

Null == [t |-> "null", v |-> <<>>]
Undefined == [t |-> "undefined", v |-> <<>>]
Str(s) == [t |-> "string", v |-> s]

\* ToBoolean of the values a cache read can yield
Truthy(x) == x.t = "string" /\ Len(x.v) > 0

Min(a, b) == IF a < b THEN a ELSE b

RECURSIVE Pow2(_)
Pow2(n) == IF n = 0 THEN 1 ELSE 2 * Pow2(n - 1)

-----------------------------------------------------------------------------
(* ENV_CONFIG *)

RETRY_ATTEMPTS == 3

-----------------------------------------------------------------------------
(* ResponseCache.createHash: 32-bit arithmetic on two 16-bit limbs          *)
(* <<hi, lo>>, the value being hi * 65536 + lo as an unsigned 32-bit word.  *)

Limb == 65536

\* hash << 5
Shl5(h) ==
    LET lo32 == h[2] * 32
        hi32 == h[1] * 32 + (lo32 \div Limb)
    IN  <<hi32 % Limb, lo32 % Limb>>

\* a - b, modulo 2^32
Sub32(a, b) ==
    LET borrow == IF a[2] < b[2] THEN 1 ELSE 0
    IN  <<(a[1] - b[1] - borrow + 2 * Limb) % Limb, (a[2] - b[2] + Limb) % Limb>>

\* a + c for a code unit c, modulo 2^32
Add32(a, c) ==
    LET lo == a[2] + c
    IN  <<(a[1] + (lo \div Limb)) % Limb, lo % Limb>>

\* hash = ((hash << 5) - hash) + char; hash = hash & hash
HashStep(h, char) == Add32(Sub32(Shl5(h), h), char)

RECURSIVE HashLoop(_, _, _)
HashLoop(data, i, h) ==
    IF i > Len(data) THEN h
    ELSE \* the hash after this character is computed once, then carried on
         CHOOSE r \in {HashLoop(data, i + 1, x) : x \in {HashStep(h, data[i])}} : TRUE

\* Math.abs of the signed reading of the word
Abs32(h) ==
    IF h[1] < 32768 THEN h
    ELSE <<(Limb - 1 - h[1] + (IF h[2] = 0 THEN 1 ELSE 0)) % Limb, (Limb - h[2]) % Limb>>

\* one digit of Number.prototype.toString(36), as a code unit
Digit36(d) == IF d < 10 THEN 48 + d ELSE 87 + d

RECURSIVE ToString36(_)
ToString36(m) ==
    IF m[1] = 0 /\ m[2] < 36 THEN <<Digit36(m[2])>>
    ELSE LET t == (m[1] % 36) * Limb + m[2]
         IN  ToString36(<<m[1] \div 36, t \div 36>>) \o <<Digit36(t % 36)>>

\* Blob.text(): UTF-8 decoding; a byte that starts no valid sequence (the
\* model's blobs hold ASCII bytes and the never-valid bytes 254, 255) decodes
\* to U+FFFD
Utf8Decode(bytes) ==
    [i \in 1..Len(bytes) |-> IF bytes[i] < 128 THEN bytes[i] ELSE 65533]

\* the string hashed: the content itself, or the text of a Blob
HashData(content) ==
    IF content.t = "blob" THEN Utf8Decode(content.v) ELSE content.v

\* variant: a hash salted with the time of the call
createHash_Salted(content) ==
    ToString36(Abs32(HashLoop(HashData(content), 1, <<0, now \div 1000>>)))

\* ResponseCache.createHash: the loop over the code units, then
\* Math.abs(hash).toString(36) of its result
createHash(content) ==
    CHOOSE r \in {ToString36(Abs32(h)) : h \in {HashLoop(HashData(content), 1, <<0, 0>>)}} : TRUE

-----------------------------------------------------------------------------
(* Cache *)

DEFAULT_TTL == 5 * 60 * 1000
TRANSCRIPTION_TTL == 10 * 60 * 1000
CHAT_TTL == 5 * 60 * 1000

PrefixTranscription == <<116, 114, 97, 110, 115, 99, 114, 105, 112, 116, 105, 111, 110>>
PrefixChat == <<99, 104, 97, 116>>

\* variant: the key without its namespace
createKey_NoPrefix(prefix, hash) == hash

\* `${prefix}:${params.join(':')}` with one parameter
createKey(prefix, hash) == prefix \o <<58>> \o hash

\* variant: a set that purges nothing
cleanup_Never(st, t) == st

\* Cache.cleanup: drop every item with now > expiresAt
cleanup(st, t) ==
    LET keep == {k \in DOMAIN st : ~(t > st[k].expiresAt)}
    IN  [k \in keep |-> st[k]]

\* variant: an overwrite that keeps the expiry of the entry it replaces
CacheSet_KeepExpiry(st, key, data, ttl, t) ==
    LET item == [data |-> data, timestamp |-> t,
                 expiresAt |-> IF key \in DOMAIN st THEN st[key].expiresAt ELSE t + ttl]
        put == [k \in DOMAIN st \cup {key} |-> IF k = key THEN item ELSE st[k]]
    IN  cleanup(put, t)

\* Cache.set: the storage after set(key, data, ttl) at time t
CacheSet(st, key, data, ttl, t) ==
    LET item == [data |-> data, timestamp |-> t, expiresAt |-> t + ttl]
        put == [k \in DOMAIN st \cup {key} |-> IF k = key THEN item ELSE st[k]]
    IN  cleanup(put, t)

\* variant: an entry no longer returned in the millisecond it expires
CacheGetValue_ExpiresEarly(st, key, t) ==
    IF key \notin DOMAIN st THEN Null
    ELSE IF t >= st[key].expiresAt THEN Null
    ELSE st[key].data

\* Cache.get: the value returned at time t
CacheGetValue(st, key, t) ==
    IF key \notin DOMAIN st THEN Null
    ELSE IF t > st[key].expiresAt THEN Null
    ELSE st[key].data

\* variant: the delete is not guarded by the expiry check
CacheGetStorage_Unchecked(st, key, t) ==
    [k \in DOMAIN st \ {key} |-> st[k]]

\* Cache.get: the storage it leaves (an expired item is deleted)
CacheGetStorage(st, key, t) ==
    IF key \in DOMAIN st /\ t > st[key].expiresAt
    THEN [k \in DOMAIN st \ {key} |-> st[k]]
    ELSE st

\* Cache.has: get(key) !== null
CacheHas(st, key, t) == CacheGetValue(st, key, t) # Null

\* Cache.delete
CacheDelete(st, key) == [k \in DOMAIN st \ {key} |-> st[k]]

-----------------------------------------------------------------------------------------------------------------------------------------------------
(* JavaScript Number arithmetic of compressAudio: IEEE-754 binary64, round *)
(* to nearest, ties to even.  A wide natural is <<a, b, c>> for            *)
(* a * 2^54 + b * 2^27 + c; a positive double is [m, e] for m * 2^e with   *)
(* 2^52 <= m < 2^53, and zero is m = 0.                                    *)

W27 == 134217728

Wide(x) == <<0, x \div W27, x % W27>>
WZero == <<0, 0, 0>>

WDouble(w) ==
    LET c == 2 * w[3]
        b == 2 * w[2] + c \div W27
        a == 2 * w[1] + b \div W27
    IN  <<a, b % W27, c % W27>>

WAdd(x, y) ==
    LET c == x[3] + y[3]
        b == x[2] + y[2] + c \div W27
        a == x[1] + y[1] + b \div W27
    IN  <<a, b % W27, c % W27>>

\* x - y, for x >= y
WSub(x, y) ==
    LET c == x[3] - y[3]
        bc == IF c < 0 THEN 1 ELSE 0
        b == x[2] - y[2] - bc
        bb == IF b < 0 THEN 1 ELSE 0
    IN  <<x[1] - y[1] - bb, (b + W27) % W27, (c + W27) % W27>>

WLess(x, y) ==
    \/ x[1] < y[1]
    \/ x[1] = y[1] /\ x[2] < y[2]
    \/ x[1] = y[1] /\ x[2] = y[2] /\ x[3] < y[3]

WOdd(w) == w[3] % 2 = 1

\* w with its limbs moved up (j > 0) or down (j < 0) by |j| places
WLimbs(w, j) ==
    CASE j = 0 -> w
      [] j = 1 -> <<w[2], w[3], 0>>
      [] j = 2 -> <<w[3], 0, 0>>
      [] j = -1 -> <<0, w[1], w[2]>>
      [] j = -2 -> <<0, 0, w[1]>>
      [] OTHER -> WZero

\* floor(w / 2^s) for 0 <= s < 27
WShrBits(w, s) ==
    LET p == Pow2(s)
        up == W27 \div p
    IN  <<w[1] \div p, (w[1] % p) * up + w[2] \div p, (w[2] % p) * up + w[3] \div p>>

\* w * 2^s for 0 <= s < 27 (the result below 2^81)
WShlBits(w, s) ==
    LET p == Pow2(s)
        down == W27 \div p
    IN  <<w[1] * p + w[2] \div down, (w[2] % down) * p + w[3] \div down,
          (w[3] % down) * p>>

\* floor(w / 2^s)
WShr(w, s) == WShrBits(WLimbs(w, -(s \div 27)), s % 27)

\* w * 2^s
WShl(w, s) == WShlBits(WLimbs(w, s \div 27), s % 27)

\* the number of bits of a natural below 2^27
BitLen(x) ==
    IF x = 0 THEN 0
    ELSE CHOOSE b \in 1..27 : Pow2(b - 1) <= x /\ x < Pow2(b)

WBitLen(w) ==
    IF w[1] # 0 THEN 54 + BitLen(w[1])
    ELSE IF w[2] # 0 THEN 27 + BitLen(w[2])
    ELSE BitLen(w[3])

\* w * k for 0 <= k <= 8192: each limb is split at bit 13
WMul(w, k) ==
    LET hi == <<(w[1] \div 8192) * k, (w[2] \div 8192) * k, (w[3] \div 8192) * k>>
        lo == <<(w[1] % 8192) * k, (w[2] % 8192) * k, (w[3] % 8192) * k>>
    IN  WAdd(WShlBits(hi, 13), lo)

Two52 == <<0, 33554432, 0>>
Two53 == <<0, 67108864, 0>>

DZero == [m |-> WZero, e |-> 0]

\* the mantissa q and exponent e after the rounding decision; a carry out
\* of the mantissa renormalises
Rounded(q, e, up) ==
    LET q1 == IF up THEN WAdd(q, Wide(1)) ELSE q
    IN  IF q1 = Two53 THEN [m |-> Two52, e |-> e + 1] ELSE [m |-> q1, e |-> e]

\* one step of the binary long division of rem / den, rem < den: the next
\* quotient bit goes to q, k counts the bits; no step once q has 53 bits
DivStep(s, den) ==
    IF ~WLess(s.q, Two52) THEN s
    ELSE LET twice == WDouble(s.rem)
         IN  IF WLess(twice, den)
             THEN [rem |-> twice, q |-> WDouble(s.q), k |-> s.k + 1]
             ELSE [rem |-> WSub(twice, den), q |-> WAdd(WDouble(s.q), Wide(1)),
                   k |-> s.k + 1]

\* k steps; every intermediate state is computed once, as the element of a
\* set of one state
RECURSIVE DivSteps(_, _, _)
DivSteps(s0, den, k) ==
    IF k = 0 THEN s0
    ELSE CHOOSE r \in {DivSteps(s, den, k - 1) : s \in {DivStep(s0, den)}} : TRUE

\* num / den as a double, for wide 0 < num < den < 2^53 with num * 2^10 >= den
\* (the first quotient bit comes within 11 steps, the 53rd within 64)
WDiv(num, den) ==
    LET s == DivSteps([rem |-> num, q |-> WZero, k |-> 0], den, 64)
        twice == WDouble(s.rem)
    IN  Rounded(s.q, -s.k, WLess(den, twice) \/ (twice = den /\ WOdd(s.q)))

\* x / y for naturals 0 < x <= y < 2^27, y <= 1024 * x: the quotient as a double
DDivInts(x, y) ==
    IF x = y THEN [m |-> Two52, e |-> -52]
    ELSE WDiv(Wide(x), Wide(y))

\* i / d for a natural i < 2^27 and a double d > 0
DDivByDouble(i, d) ==
    IF i = 0 THEN DZero
    ELSE LET s == 52 - BitLen(i)         \* 2^51 <= i * 2^s < 2^52 <= d.m
             q == WDiv(WShl(Wide(i), s), d.m)
         IN  [m |-> q.m, e |-> q.e - s - d.e]

\* n * d for a natural n <= 8192 and a double d
DMulByInt(n, d) ==
    IF n = 0 \/ d.m = WZero THEN DZero
    ELSE LET p == WMul(d.m, n)
             s == WBitLen(p) - 53
             q == WShr(p, s)
             low == WSub(p, WShl(q, s))
             half == Wide(Pow2(s - 1))
         IN  IF s = 0 THEN [m |-> p, e |-> d.e]
             ELSE Rounded(q, d.e + s, WLess(half, low) \/ (low = half /\ WOdd(q)))

\* Math.floor of a double below 2^31, as an integer
DFloor(d) ==
    IF d.m = WZero THEN 0
    ELSE LET w == WShr(d.m, -d.e)
         IN  w[2] * W27 + w[3]

-----
(* Thrown values.  A raw error is what the platform or handleResponse       *)
(* throws: cls is its class ("null", "undefined" and "string" are thrown    *)
(* primitives), fetchMsg whether its message includes 'fetch', hasStatus    *)
(* and status its status field.  An AppError is what createError builds.    *)

HttpStatuses == {400, 401, 403, 404, 429, 500, 502, 503}

ErrorClasses == {"TypeError", "Error", "DOMException", "SyntaxError", "object"}

Raw(cls, fetchMsg, hasStatus, status) ==
    [k |-> "raw", cls |-> cls, fetchMsg |-> fetchMsg,
     hasStatus |-> hasStatus, status |-> status]

RawPlain(cls) == Raw(cls, FALSE, FALSE, 0)

\* every raw value handed to the classifier directly
RawErrors ==
    {Raw(c, f, FALSE, 0) : c \in ErrorClasses, f \in BOOLEAN}
    \cup {Raw(c, f, TRUE, s) : c \in ErrorClasses, f \in BOOLEAN, s \in HttpStatuses \cup {0}}
    \cup {RawPlain("string"), RawPlain("null"), RawPlain("undefined")}

Contexts == {"transcription", "chat", "health", "processing"}

ErrorTypes ==
    {"NETWORK_ERROR", "API_ERROR", "MICROPHONE_ERROR", "TRANSCRIPTION_ERROR",
     "CHAT_ERROR", "UNKNOWN_ERROR"}

\* ErrorHandler.createError
createError(type, originalError, retryable) ==
    [k |-> "AppError", type |-> type, originalError |-> originalError,
     retryable |-> retryable]

Returned(x) == [threw |-> FALSE, value |-> x]
Threw(x) == [threw |-> TRUE, value |-> x]

\* error instanceof TypeError && error.message.includes('fetch')
IsNetworkFailure(error) == error.cls = "TypeError" /\ error.fetchMsg

\* if (error.status): the field is there and truthy
HasTruthyStatus(error) == error.hasStatus /\ error.status # 0

\* variant: every 4xx but 429 taken as the client's fault
StatusRetryable_ServerOnly(status) == status = 429 \/ status >= 500

\* the switch on error.status
StatusRetryable(status) ==
    CASE status = 400 -> FALSE
      [] status = 401 -> FALSE
      [] status = 429 -> TRUE
      [] status = 500 -> TRUE
      [] OTHER -> TRUE

\* variant: the context rules tried before the status rule
handleApiError_ContextFirst(error, context) ==
    IF IsNetworkFailure(error)
    THEN Returned(createError("NETWORK_ERROR", error, TRUE))
    ELSE IF error.cls \in {"null", "undefined"}
    THEN Threw(RawPlain("TypeError"))
    ELSE IF context = "transcription"
    THEN Returned(createError("TRANSCRIPTION_ERROR", error, TRUE))
    ELSE IF context = "chat"
    THEN Returned(createError("CHAT_ERROR", error, TRUE))
    ELSE IF HasTruthyStatus(error)
    THEN Returned(createError("API_ERROR", error, StatusRetryable(error.status)))
    ELSE Returned(createError("UNKNOWN_ERROR", error, TRUE))

\* ErrorHandler.handleApiError: what it returns, or what it throws
handleApiError(error, context) ==
    IF IsNetworkFailure(error)
    THEN Returned(createError("NETWORK_ERROR", error, TRUE))
    ELSE IF error.cls \in {"null", "undefined"}
    THEN Threw(RawPlain("TypeError"))      \* reading .status of null
    ELSE IF HasTruthyStatus(error)
    THEN Returned(createError("API_ERROR", error, StatusRetryable(error.status)))
    ELSE IF context = "transcription"
    THEN Returned(createError("TRANSCRIPTION_ERROR", error, TRUE))
    ELSE IF context = "chat"
    THEN Returned(createError("CHAT_ERROR", error, TRUE))
    ELSE Returned(createError("UNKNOWN_ERROR", error, TRUE))

\* what a failed capture hands to the catch of startRecording: the
\* DOMExceptions of getUserMedia and of MediaRecorder by name, a TypeError
\* (no mediaDevices), and values that carry no name
MicrophoneErrorNames ==
    {"NotAllowedError", "NotFoundError", "NotSupportedError", "NotReadableError",
     "OverconstrainedError", "AbortError", "SecurityError", "InvalidStateError"}
NoName == ""
RawNamed(cls, name) == [k |-> "raw", cls |-> cls, name |-> name]
MicrophoneErrors ==
    {RawNamed("DOMException", n) : n \in MicrophoneErrorNames}
    \cup {RawNamed("TypeError", "TypeError"), RawNamed("Error", "Error"),
          RawNamed("object", NoName), RawNamed("string", NoName)}

\* variant: an unsupported browser taken as worth a retry
handleMicrophoneError_TwoNames(error) ==
    IF error.cls \in {"null", "undefined"}
    THEN Threw(RawPlain("TypeError"))
    ELSE Returned(createError("MICROPHONE_ERROR", error,
                              error.name \notin {"NotAllowedError", "NotFoundError"}))

\* ErrorHandler.handleMicrophoneError: what it returns, or what it throws
handleMicrophoneError(error) ==
    IF error.cls \in {"null", "undefined"}
    THEN Threw(RawPlain("TypeError"))      \* reading .name of null
    ELSE IF error.name = "NotAllowedError"
    THEN Returned(createError("MICROPHONE_ERROR", error, FALSE))
    ELSE IF error.name = "NotFoundError"
    THEN Returned(createError("MICROPHONE_ERROR", error, FALSE))
    ELSE IF error.name = "NotSupportedError"
    THEN Returned(createError("MICROPHONE_ERROR", error, FALSE))
    ELSE Returned(createError("MICROPHONE_ERROR", error, TRUE))

\* variant: the backoff without its cap
getRetryDelay_Uncapped(attempt) == 1000 * Pow2(attempt)

\* ErrorHandler.getRetryDelay
getRetryDelay(attempt) == Min(1000 * Pow2(attempt), 10000)

\* variant: the retryable flag not consulted
shouldRetry_AnyError(error, attempt, maxAttempts) == attempt < maxAttempts

\* ErrorHandler.shouldRetry
shouldRetry(error, attempt, maxAttempts) ==
    error.retryable = TRUE /\ attempt < maxAttempts

-----------------------------------------------------------------------------
(* Inputs and backend answers *)

\* the texts the backend answers with and the messages sent: "" and "Aa"
Texts == {<<>>, <<65, 97>>}

Blob(bytes, size) == [t |-> "blob", v |-> bytes, size |-> size]
Message(text) == [t |-> "string", v |-> text, size |-> Len(text)]

\* recorded audio: v is the content ("Aa" and "BB", which hash alike), size
\* the byte size on the real scale
AudioBlobs == {Blob(<<65, 97>>, 200 * 1024), Blob(<<66, 66>>, 200 * 1024 + 1)}
Messages == {Message(x) : x \in Texts}

\* the retryAttempts argument: the default, and every count up to the bound
\* (and -1, for which the loop body never runs)
RetryChoices == {RETRY_ATTEMPTS} \cup (-1)..MaxRetryAttempts

\* what fetch rejects with when no response arrives: "Failed to fetch"
\* (Chromium), "Load failed" (WebKit)
FetchRejections == {Raw("TypeError", TRUE, FALSE, 0), Raw("TypeError", FALSE, FALSE, 0)}
\* what fetch rejects with once controller.abort() has run
AbortError == RawPlain("DOMException")
\* what Blob.text() rejects with when the blob cannot be read
NotReadableError == RawPlain("DOMException")

ResponseStatuses == {200, 401, 429, 503}
BodyKinds == {"json", "notjson", "null"}

-----------------------------------------------------------------------------
(* ApiClient: one record per call *)

NoError == [k |-> "none"]
NoValue == [t |-> "none", v |-> <<>>]
NoInput == [t |-> "none", v |-> <<>>, size |-> 0]

\* what the cache check found: an unexpired item under the key, and its data
NotHeld == [present |-> FALSE, data |-> Null]
Held(st, key, t) ==
    IF key \in DOMAIN st /\ ~(t > st[key].expiresAt)
    THEN [present |-> TRUE, data |-> st[key].data]
    ELSE NotHeld

\* the call made before this one, when it fetched and cached a result for
\* the same input: its result and when it was cached
NoPrior == [present |-> FALSE, value |-> NoValue, at |-> 0]
PriorOf(prev, kind, input) ==
    IF prev.pc = "done" /\ prev.kind = kind /\ prev.input = input /\ prev.requests > 0
    THEN [present |-> TRUE, value |-> prev.result, at |-> prev.doneAt]
    ELSE NoPrior

\* at the cache check: the earlier result counts while its TTL has not run out
StillFresh(prior, kind, t) ==
    IF prior.present /\ t <= prior.at + (IF kind = "transcribe" THEN TRANSCRIPTION_TTL ELSE CHAT_TTL)
    THEN prior ELSE NoPrior

Idle ==
    [pc |-> "idle", kind |-> "none", input |-> NoInput, retryAttempts |-> 0,
     prior |-> NoPrior, doneAt |-> -1,
     hash |-> <<>>, checks |-> 0, held |-> NotHeld, noise |-> "none", compress |-> "none",
     attempt |-> 0, requests |-> 0, sent |-> <<>>, sleeps |-> <<>>, fails |-> <<>>,
     status |-> 0, timer |-> FALSE, writes |-> 0,
     lastErr |-> NoError, result |-> NoValue, thrown |-> NoError]

Slots == {1}

Context(kind) == IF kind = "transcribe" THEN "transcription" ELSE "chat"
Prefix(kind) == IF kind = "transcribe" THEN PrefixTranscription ELSE PrefixChat
Ttl(kind) == IF kind = "transcribe" THEN TRANSCRIPTION_TTL ELSE CHAT_TTL
KeyOf(call) == createKey(Prefix(call.kind), call.hash)

\* variant: no outer catch
OuterCatch_Rethrow(error, kind) == error

\* the outer catch: an object with a 'type' field is re-thrown, anything
\* else is classified (and what the classifier throws escapes)
OuterCatch(error, kind) ==
    IF error.k = "AppError" THEN error ELSE handleApiError(error, Context(kind)).value

Fail(call, error) ==
    [call EXCEPT !.pc = "failed", !.thrown = OuterCatch(error, call.kind),
                 !.timer = FALSE, !.status = 0]

\* the body of the request: the FormData built once before the loop from the
\* processed blob (transcribeAudio), or JSON.stringify({ message })
Payload(call) ==
    [kind |-> call.kind, input |-> call.input,
     noise |-> call.noise, compress |-> call.compress]

\* variant: the loop test written attempt < retryAttempts
IssueAttempt_OffByOne(call, n) ==
    IF n < call.retryAttempts
    THEN [call EXCEPT !.pc = "fetch", !.attempt = n, !.requests = @ + 1,
                      !.sent = Append(@, Payload(call)),
                      !.timer = TRUE, !.lastErr = NoError]
    ELSE [call EXCEPT !.pc = "failed", !.attempt = n, !.timer = FALSE,
                      !.thrown = handleApiError(RawPlain("Error"), Context(call.kind)).value]

\* the for loop's test and the fetch of one attempt; past the loop,
\* 'Max retries exceeded' is classified and thrown
IssueAttempt(call, n) ==
    IF n <= call.retryAttempts
    THEN [call EXCEPT !.pc = "fetch", !.attempt = n, !.requests = @ + 1,
                      !.sent = Append(@, Payload(call)),
                      !.timer = TRUE, !.lastErr = NoError]
    ELSE Fail([call EXCEPT !.attempt = n],
              handleApiError(RawPlain("Error"), Context(call.kind)).value)

\* the inner catch of one attempt
AttemptFailed(call, error) ==
    LET res == handleApiError(error, Context(call.kind))
        appError == res.value
    IN  IF res.threw THEN Fail(call, appError)
        ELSE LET seen == [call EXCEPT !.lastErr = appError,
                                      !.fails = Append(@, appError.retryable),
                                      !.timer = FALSE, !.status = 0]
             IN  IF call.attempt = call.retryAttempts
                    \/ ~shouldRetry(appError, call.attempt, call.retryAttempts)
                 THEN Fail(seen, appError)
                 ELSE [seen EXCEPT !.pc = "sleep",
                                   !.sleeps = Append(@, getRetryDelay(call.attempt))]

-----------------------------------------------------------------------------
(* The direct evaluations of ErrorHandler functions *)

NoEval == [name |-> "none"]

-----------------------------------------------------------------------------
Init ==
    /\ now = 0
    /\ storage = << >>
    /\ calls = [c \in Slots |-> Idle]
    /\ started = 0
    /\ fn = NoEval

TickStep == CHAT_TTL

\* time passes
Tick ==
    /\ now < MaxTicks * TickStep
    /\ now' = now + TickStep
    /\ UNCHANGED <<storage, calls, started, fn>>

\* transcribeAudio(audioBlob, retryAttempts) or sendChatMessage(message,
\* retryAttempts) is called: it runs up to the await of createHash
Start(c, kind, input, retryAttempts) ==
    /\ fn = NoEval
    /\ calls[c].pc \in {"idle", "done", "failed"}
    /\ started < MaxCalls
    /\ started' = started + 1
    /\ calls' = [calls EXCEPT ![c] =
                    [Idle EXCEPT !.pc = "hash", !.kind = kind, !.input = input,
                                 !.retryAttempts = retryAttempts,
                                 !.prior = PriorOf(calls[c], kind, input)]]
    /\ UNCHANGED <<now, storage, fn>>

\* after the processing steps (or at once, for chat): formData, then attempt 0
EnterLoop(call) == IssueAttempt(call, 0)

\* createHash resolves: the cache check, and on a miss the code up to the
\* next await
HashResolved(c) ==
    LET call == calls[c]
        hashed == [call EXCEPT !.hash = createHash(call.input)]
        key == KeyOf(hashed)
        cachedResult == CacheGetValue(storage, key, now)
        checked == [hashed EXCEPT !.checks = @ + 1,
                                  !.held = Held(storage, key, now),
                                  !.prior = StillFresh(@, call.kind, now)]
    IN  /\ call.pc = "hash"
        /\ storage' = CacheGetStorage(storage, key, now)
        /\ calls' = [calls EXCEPT ![c] =
                        IF Truthy(cachedResult)
                        THEN [checked EXCEPT !.pc = "done", !.result = cachedResult]
                        ELSE IF call.kind = "transcribe"
                        THEN [checked EXCEPT !.pc = "noise"]
                        ELSE EnterLoop(checked)]
        /\ UNCHANGED <<now, started, fn>>

\* createHash rejects: Blob.text() failed
HashRejected(c) ==
    /\ calls[c].pc = "hash"
    /\ calls[c].input.t = "blob"
    /\ calls' = [calls EXCEPT ![c] = Fail(@, NotReadableError)]
    /\ UNCHANGED <<now, storage, started, fn>>

\* variant: files of exactly 200KB compressed too
ShouldCompress_AtLeast(originalSize) == originalSize >= 200 * 1024

\* if (originalSize > 200 * 1024)
ShouldCompress(originalSize) == originalSize > 200 * 1024

\* applyNoiseReduction resolves, with the filtered blob or the one it was given
NoiseResolved(c, outcome) ==
    LET call == calls[c]
        after == [call EXCEPT !.noise = outcome]
    IN  /\ call.pc = "noise"
        /\ calls' = [calls EXCEPT ![c] =
                        IF ShouldCompress(call.input.size)
                        THEN [after EXCEPT !.pc = "compress"]
                        ELSE EnterLoop(after)]
        /\ UNCHANGED <<now, storage, started, fn>>

\* compressAudio resolves, with the compressed blob or the one it was given
CompressResolved(c, outcome) ==
    /\ calls[c].pc = "compress"
    /\ calls' = [calls EXCEPT ![c] = EnterLoop([@ EXCEPT !.compress = outcome])]
    /\ UNCHANGED <<now, storage, started, fn>>

\* fetch rejects: no response
FetchRejected(c, error) ==
    /\ calls[c].pc = "fetch"
    /\ calls' = [calls EXCEPT ![c] = AttemptFailed(@, error)]
    /\ UNCHANGED <<now, storage, started, fn>>

\* variant: one AbortController shared by every request
TimeoutFired_Shared(c) ==
    /\ calls[c].pc = "fetch"
    /\ calls[c].timer
    /\ calls' = [d \in DOMAIN calls |->
                    IF calls[d].pc = "fetch" THEN AttemptFailed(calls[d], AbortError)
                    ELSE calls[d]]
    /\ UNCHANGED <<now, storage, started, fn>>

\* the timeout timer fires: controller.abort(), and fetch rejects
TimeoutFired(c) ==
    /\ calls[c].pc = "fetch"
    /\ calls[c].timer
    /\ calls' = [calls EXCEPT ![c] = AttemptFailed(@, AbortError)]
    /\ UNCHANGED <<now, storage, started, fn>>

\* variant: the timer left pending when the response arrives
FetchResolved_KeepTimer(c, status) ==
    /\ calls[c].pc = "fetch"
    /\ calls' = [calls EXCEPT ![c] = [@ EXCEPT !.pc = "body", !.status = status]]
    /\ UNCHANGED <<now, storage, started, fn>>

\* fetch resolves with a response: clearTimeout, then handleResponse up to
\* its await of response.json()
FetchResolved(c, status) ==
    /\ calls[c].pc = "fetch"
    /\ calls' = [calls EXCEPT ![c] = [@ EXCEPT !.pc = "body", !.status = status, !.timer = FALSE]]
    /\ UNCHANGED <<now, storage, started, fn>>

\* response.ok
Ok(status) == status >= 200 /\ status <= 299

\* handleResponse after response.json() settles on a non-OK response: what
\* it throws
HandleErrorResponse(status, body) ==
    IF body = "null" THEN RawPlain("TypeError")      \* reading .detail of null
    ELSE Raw("Error", FALSE, TRUE, status)

\* variant: the detail of an error response cached like a result
ErrorBodySettled_Cached(c, body) ==
    /\ calls[c].pc = "body"
    /\ ~Ok(calls[c].status)
    /\ storage' = CacheSet(storage, KeyOf(calls[c]), Str(<<>>), Ttl(calls[c].kind), now)
    /\ calls' = [calls EXCEPT ![c] =
                    AttemptFailed([@ EXCEPT !.writes = @ + 1],
                                  HandleErrorResponse(calls[c].status, body))]
    /\ UNCHANGED <<now, started, fn>>

\* response.json() settles on a non-OK response
ErrorBodySettled(c, body) ==
    /\ calls[c].pc = "body"
    /\ ~Ok(calls[c].status)
    /\ calls' = [calls EXCEPT ![c] =
                    AttemptFailed(@, HandleErrorResponse(calls[c].status, body))]
    /\ UNCHANGED <<now, storage, started, fn>>

\* response.json() rejects on an OK response (SyntaxError), or yields null
\* (reading .transcript of null)
OkBodyBroken(c, body) ==
    /\ calls[c].pc = "body"
    /\ Ok(calls[c].status)
    /\ body \in {"notjson", "null"}
    /\ calls' = [calls EXCEPT ![c] =
                    AttemptFailed(@, IF body = "null" THEN RawPlain("TypeError")
                                     ELSE RawPlain("SyntaxError"))]
    /\ UNCHANGED <<now, storage, started, fn>>

\* variant: the result returned without being cached
OkBodyParsed_NoCache(c, text) ==
    /\ calls[c].pc = "body"
    /\ Ok(calls[c].status)
    /\ calls' = [calls EXCEPT ![c] = [@ EXCEPT !.pc = "done", !.result = Str(text),
                                               !.status = 0, !.doneAt = now]]
    /\ UNCHANGED <<now, storage, started, fn>>

\* variant: an entry already under the key is left as it is
OkBodyParsed_FirstWins(c, text) ==
    LET call == calls[c]
    IN  /\ call.pc = "body"
        /\ Ok(call.status)
        /\ storage' = IF KeyOf(call) \in DOMAIN storage THEN storage
                      ELSE CacheSet(storage, KeyOf(call), Str(text), Ttl(call.kind), now)
        /\ calls' = [calls EXCEPT ![c] = [call EXCEPT !.pc = "done", !.result = Str(text),
                                                      !.writes = IF KeyOf(call) \in DOMAIN storage
                                                                 THEN @ ELSE @ + 1,
                                                      !.status = 0, !.doneAt = now]]
        /\ UNCHANGED <<now, started, fn>>

\* response.json() yields the result: it is cached and returned
OkBodyParsed(c, text) ==
    LET call == calls[c]
    IN  /\ call.pc = "body"
        /\ Ok(call.status)
        /\ storage' = CacheSet(storage, KeyOf(call), Str(text), Ttl(call.kind), now)
        /\ calls' = [calls EXCEPT ![c] = [call EXCEPT !.pc = "done", !.result = Str(text),
                                                      !.writes = @ + 1,
                                                      !.status = 0, !.doneAt = now]]
        /\ UNCHANGED <<now, started, fn>>

\* variant: the processing steps inside the retry loop
Woke_Reprocess(c) ==
    /\ calls[c].pc = "sleep"
    /\ calls' = [calls EXCEPT ![c] =
                    IF calls[c].kind = "transcribe"
                    THEN [@ EXCEPT !.pc = "noise", !.attempt = @ + 1]
                    ELSE IssueAttempt(@, calls[c].attempt + 1)]
    /\ UNCHANGED <<now, storage, started, fn>>

\* variant: after the backoff sleep the call starts over at the cache check
Woke_Restart(c) ==
    /\ calls[c].pc = "sleep"
    /\ calls' = [calls EXCEPT ![c] = [@ EXCEPT !.pc = "hash"]]
    /\ UNCHANGED <<now, storage, started, fn>>

\* the backoff sleep ends: the next attempt
Woke(c) ==
    /\ calls[c].pc = "sleep"
    /\ calls' = [calls EXCEPT ![c] = IssueAttempt(@, calls[c].attempt + 1)]
    /\ UNCHANGED <<now, storage, started, fn>>

\* ErrorHandler.handleApiError called directly
EvalHandleApiError(error, context) ==
    /\ started = 0 /\ now = 0
    /\ fn' = [name |-> "handleApiError", error |-> error, context |-> context,
              out |-> handleApiError(error, context)]
    /\ UNCHANGED <<now, storage, calls, started>>

\* ErrorHandler.handleMicrophoneError called by the catch of startRecording
EvalHandleMicrophoneError(error) ==
    /\ started = 0 /\ now = 0
    /\ fn' = [name |-> "handleMicrophoneError", error |-> error,
              out |-> handleMicrophoneError(error)]
    /\ UNCHANGED <<now, storage, calls, started>>

\* ErrorHandler.getRetryDelay called directly
EvalGetRetryDelay(attempt) ==
    /\ started = 0 /\ now = 0
    /\ fn' = [name |-> "getRetryDelay", attempt |-> attempt, out |-> getRetryDelay(attempt)]
    /\ UNCHANGED <<now, storage, calls, started>>

\* ErrorHandler.shouldRetry called directly
EvalShouldRetry(error, attempt, maxAttempts) ==
    /\ started = 0 /\ now = 0
    /\ fn' = [name |-> "shouldRetry", error |-> error, attempt |-> attempt,
              maxAttempts |-> maxAttempts, out |-> shouldRetry(error, attempt, maxAttempts)]
    /\ UNCHANGED <<now, storage, calls, started>>

Next ==
    \/ Tick
    \/ \E c \in Slots, input \in AudioBlobs, r \in RetryChoices : Start(c, "transcribe", input, r)
    \/ \E c \in Slots, input \in Messages, r \in RetryChoices : Start(c, "chat", input, r)
    \/ \E c \in Slots : HashResolved(c)
    \/ \E c \in Slots : HashRejected(c)
    \/ \E c \in Slots, o \in {"filtered", "original"} : NoiseResolved(c, o)
    \/ \E c \in Slots, o \in {"compressed", "original"} : CompressResolved(c, o)
    \/ \E c \in Slots, e \in FetchRejections : FetchRejected(c, e)
    \/ \E c \in Slots : TimeoutFired(c)
    \/ \E c \in Slots, s \in ResponseStatuses : FetchResolved(c, s)
    \/ \E c \in Slots, b \in BodyKinds : ErrorBodySettled(c, b)
    \/ \E c \in Slots, b \in BodyKinds : OkBodyBroken(c, b)
    \/ \E c \in Slots, x \in Texts : OkBodyParsed(c, x)
    \/ \E c \in Slots : Woke(c)
    \/ \E e \in RawErrors, x \in Contexts : EvalHandleApiError(e, x)
    \/ \E n \in 0..MaxAttemptArg : EvalGetRetryDelay(n)
    \/ \E r \in BOOLEAN, n \in 0..MaxRetryAttempts, m \in RetryChoices :
          EvalShouldRetry(createError("API_ERROR", RawPlain("Error"), r), n, m)
    \/ \E e \in MicrophoneErrors : EvalHandleMicrophoneError(e)

Spec == Init /\ [][Next]_vars

-----------------------------------------------------------------------------
(* The Cache used on its own.  fn records the last operation: its name,    *)
(* arguments, time and result, and with it the history of writes: for each *)
(* key the last set (value, time, ttl) not followed by a delete or clear.  *)

CacheKeys == {createKey(PrefixTranscription, <<97>>), createKey(PrefixChat, <<97>>)}
CacheValues == {Str(<<65, 97>>), Null, Undefined}
\* ttl arguments; set(key, data) without one takes DEFAULT_TTL
TtlChoices == {0, DEFAULT_TTL, TRANSCRIPTION_TTL}

NoWrite == [present |-> FALSE, v |-> Null, t |-> 0, ttl |-> 0]
Write(v, t, ttl) == [present |-> TRUE, v |-> v, t |-> t, ttl |-> ttl]

\* the item a set replaces
NoItem == [present |-> FALSE, data |-> Null, expiresAt |-> 0]
ItemAt(st, key) ==
    IF key \in DOMAIN st
    THEN [present |-> TRUE, data |-> st[key].data, expiresAt |-> st[key].expiresAt]
    ELSE NoItem

CacheOp(name, key, data, ttl, out, written) ==
    [name |-> name, key |-> key, data |-> data, ttl |-> ttl, at |-> now, out |-> out,
     replaced |-> IF name = "set" THEN ItemAt(storage, key) ELSE NoItem,
     written |-> written]

InitCache ==
    /\ now = 0
    /\ storage = << >>
    /\ calls = [c \in Slots |-> Idle]
    /\ started = 0
    /\ fn = [name |-> "new", key |-> <<>>, data |-> Null, ttl |-> 0, at |-> 0,
             out |-> Undefined, replaced |-> NoItem,
             written |-> [k \in CacheKeys |-> NoWrite]]

\* cache.set(key, data, ttl)
SetCalled(key, data, ttl) ==
    /\ storage' = CacheSet(storage, key, data, ttl, now)
    /\ fn' = CacheOp("set", key, data, ttl, Undefined,
                     [fn.written EXCEPT ![key] = Write(data, now, ttl)])
    /\ UNCHANGED <<now, calls, started>>

\* cache.get(key)
GetCalled(key) ==
    /\ storage' = CacheGetStorage(storage, key, now)
    /\ fn' = CacheOp("get", key, Null, 0, CacheGetValue(storage, key, now), fn.written)
    /\ UNCHANGED <<now, calls, started>>

\* cache.has(key)
HasCalled(key) ==
    /\ storage' = CacheGetStorage(storage, key, now)
    /\ fn' = CacheOp("has", key, Null, 0, CacheHas(storage, key, now), fn.written)
    /\ UNCHANGED <<now, calls, started>>

\* cache.delete(key)
DeleteCalled(key) ==
    /\ storage' = CacheDelete(storage, key)
    /\ fn' = CacheOp("delete", key, Null, 0, key \in DOMAIN storage,
                     [fn.written EXCEPT ![key] = NoWrite])
    /\ UNCHANGED <<now, calls, started>>

\* cache.clear()
ClearCalled ==
    /\ storage' = << >>
    /\ fn' = CacheOp("clear", <<>>, Null, 0, Undefined, [k \in CacheKeys |-> NoWrite])
    /\ UNCHANGED <<now, calls, started>>

NextCache ==
    \/ Tick
    \/ \E k \in CacheKeys, v \in CacheValues, ttl \in TtlChoices : SetCalled(k, v, ttl)
    \/ \E k \in CacheKeys : GetCalled(k)
    \/ \E k \in CacheKeys : HasCalled(k)
    \/ \E k \in CacheKeys : DeleteCalled(k)
    \/ ClearCalled

CacheSpec == InitCache /\ [][NextCache]_vars

-----------------------------------------------------------------------------
(* The ResponseCache used on its own: createHash and the two namespaced    *)
(* sub-caches over the one storage.  fn records the last operation, the    *)
(* createHash call before it, and for each namespace and hash the last     *)
(* write not followed by clearAll.                                         *)

\* ResponseCache.cacheTranscription and getCachedTranscription
cacheTranscription(st, audioHash, transcript, t) ==
    CacheSet(st, createKey(PrefixTranscription, audioHash), transcript, TRANSCRIPTION_TTL, t)
getCachedTranscription(st, audioHash, t) ==
    CacheGetValue(st, createKey(PrefixTranscription, audioHash), t)
\* ResponseCache.cacheChatResponse and getCachedChatResponse
cacheChatResponse(st, messageHash, response, t) ==
    CacheSet(st, createKey(PrefixChat, messageHash), response, CHAT_TTL, t)
getCachedChatResponse(st, messageHash, t) ==
    CacheGetValue(st, createKey(PrefixChat, messageHash), t)
\* cache.set(key, data): the ttl parameter takes its default
CacheSetDefault(st, key, data, t) == CacheSet(st, key, data, DEFAULT_TTL, t)

\* what is hashed: the texts "", "Aa", "BB" (which hashes like "Aa") and
\* U+FFFD, and blobs whose bytes decode to "Aa" and to U+FFFD
HashContents ==
    {Message(<<>>), Message(<<65, 97>>), Message(<<66, 66>>), Message(<<65533>>),
     Blob(<<65, 97>>, 2), Blob(<<255>>, 1)}

\* the hash both sub-caches are used with: of "Aa"
HashesUsed == {createHash(Message(<<65, 97>>))}
Namespaces == {"transcription", "chat"}
\* a key outside both namespaces: "x"
OtherKey == <<120>>

NoHash == [present |-> FALSE, content |-> NoInput, out |-> <<>>]
Hashed(content, out) == [present |-> TRUE, content |-> content, out |-> out]

\* the last createHash call so far
LastHash == IF fn.name = "createHash" THEN Hashed(fn.data, fn.out.v) ELSE fn.before

ResponseCacheOp(name, hash, data, out, before, written) ==
    [name |-> name, hash |-> hash, data |-> data, at |-> now, out |-> out,
     before |-> before, written |-> written]

InitResponseCache ==
    /\ now = 0
    /\ storage = << >>
    /\ calls = [c \in Slots |-> Idle]
    /\ started = 0
    /\ fn = ResponseCacheOp("new", <<>>, Null, Undefined, NoHash,
                            [n \in Namespaces \cup {"other"}, h \in HashesUsed |-> NoWrite])

\* responseCache.createHash(content); fn.before keeps the call before it
CreateHashCalled(content) ==
    /\ fn' = [fn EXCEPT !.name = "createHash", !.hash = <<>>, !.data = content, !.at = now,
                        !.out = Str(createHash(content)),
                        !.before = LastHash]
    /\ UNCHANGED <<now, storage, calls, started>>

\* responseCache.cacheTranscription(audioHash, transcript)
CacheTranscriptionCalled(audioHash, transcript) ==
    /\ storage' = cacheTranscription(storage, audioHash, transcript, now)
    /\ fn' = ResponseCacheOp("cacheTranscription", audioHash, transcript, Undefined, LastHash,
                  [fn.written EXCEPT !["transcription", audioHash] =
                                         Write(transcript, now, TRANSCRIPTION_TTL)])
    /\ UNCHANGED <<now, calls, started>>

\* responseCache.getCachedTranscription(audioHash)
GetCachedTranscriptionCalled(audioHash) ==
    /\ storage' = CacheGetStorage(storage, createKey(PrefixTranscription, audioHash), now)
    /\ fn' = ResponseCacheOp("getCachedTranscription", audioHash, Null,
                             getCachedTranscription(storage, audioHash, now),
                             LastHash, fn.written)
    /\ UNCHANGED <<now, calls, started>>

\* responseCache.cacheChatResponse(messageHash, response)
CacheChatResponseCalled(messageHash, response) ==
    /\ storage' = cacheChatResponse(storage, messageHash, response, now)
    /\ fn' = ResponseCacheOp("cacheChatResponse", messageHash, response, Undefined, LastHash,
                  [fn.written EXCEPT !["chat", messageHash] = Write(response, now, CHAT_TTL)])
    /\ UNCHANGED <<now, calls, started>>

\* responseCache.getCachedChatResponse(messageHash)
GetCachedChatResponseCalled(messageHash) ==
    /\ storage' = CacheGetStorage(storage, createKey(PrefixChat, messageHash), now)
    /\ fn' = ResponseCacheOp("getCachedChatResponse", messageHash, Null,
                             getCachedChatResponse(storage, messageHash, now),
                             LastHash, fn.written)
    /\ UNCHANGED <<now, calls, started>>

\* Cache.getInstance().set("x", data), without a ttl
SetDefaultCalled(data) ==
    /\ storage' = CacheSetDefault(storage, OtherKey, data, now)
    /\ fn' = ResponseCacheOp("set", <<>>, data, Undefined, LastHash,
                  [n \in Namespaces \cup {"other"}, h \in HashesUsed |->
                      IF n = "other" THEN Write(data, now, DEFAULT_TTL) ELSE fn.written[n, h]])
    /\ UNCHANGED <<now, calls, started>>

\* responseCache.clearAll()
ClearAllCalled ==
    /\ storage' = << >>
    /\ fn' = ResponseCacheOp("clearAll", <<>>, Null, Undefined, LastHash,
                             [n \in Namespaces \cup {"other"}, h \in HashesUsed |-> NoWrite])
    /\ UNCHANGED <<now, calls, started>>

NextResponseCache ==
    \/ Tick
    \/ \E h \in HashesUsed, x \in Texts : CacheTranscriptionCalled(h, Str(x))
    \/ \E h \in HashesUsed : GetCachedTranscriptionCalled(h)
    \/ \E h \in HashesUsed, x \in Texts : CacheChatResponseCalled(h, Str(x))
    \/ \E h \in HashesUsed : GetCachedChatResponseCalled(h)
    \/ \E x \in Texts : SetDefaultCalled(Str(x))
    \/ ClearAllCalled

ResponseCacheSpec == InitResponseCache /\ [][NextResponseCache]_vars

\* createHash called again and again, while time passes and the cache is
\* written and cleared
NextHash ==
    \/ Tick
    \/ \E content \in HashContents : CreateHashCalled(content)
    \/ \E h \in HashesUsed : CacheChatResponseCalled(h, Str(<<65, 97>>))
    \/ ClearAllCalled

HashSpec == InitResponseCache /\ [][NextHash]_vars

-----------------------------------------------------------------------------
(* The AudioProcessor, one step per await and per copied frame.  fn is the *)
(* run: who called (name), the function running (f) and where it stands    *)
(* (pc), the blob it was given and the one it returned, the processedBlob  *)
(* of transcribeAudio (payload), the AudioContexts constructed and not     *)
(* closed (open), and the buffers of compressAudio.                        *)

\* a recorded blob of some size, and the WAV blob audioBufferToBlob builds
Recorded(size) ==
    [kind |-> "recorded", size |-> size, sampleRate |-> 0, frames |-> 0,
     channels |-> 0, riffSize |-> 0, dataSize |-> 0]
Wav(frames, channels, sampleRate) ==
    [kind |-> "wav", size |-> 44 + frames * channels * 2, sampleRate |-> sampleRate,
     frames |-> frames, channels |-> channels,
     riffSize |-> 36 + frames * channels * 2, dataSize |-> frames * channels * 2]
NoBlob == Recorded(0)

\* what decodeAudioData resolves with: an AudioBuffer at the context's rate
Decoded(sampleRate, frames, channels) ==
    [sampleRate |-> sampleRate, length |-> frames, numberOfChannels |-> channels]
NoBuffer == Decoded(0, 0, 0)

\* rates the AudioContext, and so the decoded buffer, may have: one below
\* the target (16000), the usual device rates (44100, 48000), the rate of
\* CD-ROM XA audio (37800), and a rate a device clock may be set to (32340)
SampleRates == {16000, 44100, 48000, 37800, 32340}

\* the recordings of a transcribeAudio call, and their decodings
PipelineSizes == {200 * 1024, 200 * 1024 + 1}
PipelineAudio == {Decoded(48000, 0, 1), Decoded(48000, 3, 2)}
\* the decodings of the blob given to compressAudio directly
CompressAudio == {Decoded(r, n, 2) : r \in SampleRates, n \in 0..MaxFrames}

AudioIdle ==
    [name |-> "none", f |-> "none", pc |-> "idle", original |-> NoBlob,
     given |-> NoBlob, out |-> NoBlob, fellBack |-> FALSE, payload |-> NoBlob,
     noise |-> "none", compress |-> "none", open |-> 0,
     source |-> NoBuffer, target |-> NoBuffer, ratio |-> DZero, i |-> 0, index |-> 0]

InitAudio ==
    /\ now = 0
    /\ storage = << >>
    /\ calls = [c \in Slots |-> Idle]
    /\ started = 0
    /\ fn = AudioIdle

\* a function of the processor is entered with a blob
Enter(run, f, blob) ==
    [run EXCEPT !.f = f, !.pc = "ctx", !.given = blob, !.out = NoBlob,
                !.fellBack = FALSE, !.source = NoBuffer, !.target = NoBuffer,
                !.ratio = DZero, !.i = 0, !.index = 0]

\* variant: no catch block, the failure leaves the function as an exception
FallBack_Rethrow(run) == [run EXCEPT !.pc = "thrown"]

\* the catch block: the blob given is returned
FallBack(run) == [run EXCEPT !.pc = "returned", !.out = run.given, !.fellBack = TRUE]

\* transcribeAudio reaches its processing steps with a blob of some size
ProcessStart(size) ==
    /\ fn.pc = "idle"
    /\ fn' = Enter([fn EXCEPT !.name = "transcribeAudio", !.original = Recorded(size),
                              !.payload = Recorded(size)],
                   "applyNoiseReduction", Recorded(size))
    /\ UNCHANGED <<now, storage, calls, started>>

\* compressAudio called on its own
CompressStart(size) ==
    /\ fn.pc = "idle"
    /\ fn' = Enter([fn EXCEPT !.name = "compressAudio", !.original = Recorded(size)],
                   "compressAudio", Recorded(size))
    /\ UNCHANGED <<now, storage, calls, started>>

\* new AudioContext(), then audioBlob.arrayBuffer() is awaited
CtxCreated ==
    /\ fn.pc = "ctx"
    /\ fn' = [fn EXCEPT !.pc = "arrayBuffer", !.open = @ + 1]
    /\ UNCHANGED <<now, storage, calls, started>>

\* new AudioContext() throws
CtxThrew ==
    /\ fn.pc = "ctx"
    /\ fn' = FallBack(fn)
    /\ UNCHANGED <<now, storage, calls, started>>

\* arrayBuffer() resolves: decodeAudioData is awaited
BufferResolved ==
    /\ fn.pc = "arrayBuffer"
    /\ fn' = [fn EXCEPT !.pc = "decode"]
    /\ UNCHANGED <<now, storage, calls, started>>

\* arrayBuffer() or decodeAudioData() rejects
ReadRejected ==
    /\ fn.pc \in {"arrayBuffer", "decode"}
    /\ fn' = FallBack(fn)
    /\ UNCHANGED <<now, storage, calls, started>>

\* variant: the source index scaled by the ratio instead of divided by it
SourceIndex_Scaled(i, compressionRatio) == DFloor(DMulByInt(i, compressionRatio))

\* Math.floor(i / compressionRatio)
SourceIndex(i, compressionRatio) == DFloor(DDivByDouble(i, compressionRatio))

\* compressAudio after decoding: the ratio and the buffer created for the
\* result; createBuffer throws for a length of zero frames
CompressDecoded(run, audioBuffer) ==
    LET targetSampleRate == Min(audioBuffer.sampleRate, 22050)
        compressionRatio == DDivInts(targetSampleRate, audioBuffer.sampleRate)
        length == DFloor(DMulByInt(audioBuffer.length, compressionRatio))
    IN  IF length = 0 THEN FallBack(run)
        ELSE [run EXCEPT !.pc = "copy", !.source = audioBuffer,
                         !.target = Decoded(targetSampleRate, length, 1),
                         !.ratio = compressionRatio, !.i = 0, !.index = 0]

\* applyNoiseReduction after decoding: the buffer created for the result is
\* filtered; createBuffer throws for a length of zero frames
NoiseDecoded(run, audioBuffer) ==
    IF audioBuffer.length = 0 THEN FallBack(run)
    ELSE [run EXCEPT !.pc = "encode", !.source = audioBuffer, !.target = audioBuffer]

\* decodeAudioData resolves
DecodeResolved(audioBuffer) ==
    /\ fn.pc = "decode"
    /\ fn' = IF fn.f = "compressAudio" THEN CompressDecoded(fn, audioBuffer)
             ELSE NoiseDecoded(fn, audioBuffer)
    /\ UNCHANGED <<now, storage, calls, started>>

\* one round of the downsampling loop: targetData[i] = sourceData[sourceIndex];
\* after the last one audioBufferToBlob is awaited
CopyFrame ==
    /\ fn.pc = "copy"
    /\ fn' = [fn EXCEPT !.index = SourceIndex(fn.i, fn.ratio),
                        !.i = @ + 1,
                        !.pc = IF fn.i + 1 < fn.target.length THEN "copy" ELSE "encode"]
    /\ UNCHANGED <<now, storage, calls, started>>

\* audioBufferToBlob resolves with the WAV blob: audioContext.close() is awaited
EncodeResolved ==
    /\ fn.pc = "encode"
    /\ fn' = [fn EXCEPT !.pc = "close",
                        !.out = Wav(fn.target.length, fn.target.numberOfChannels,
                                    fn.target.sampleRate)]
    /\ UNCHANGED <<now, storage, calls, started>>

\* audioBufferToBlob rejects: the ArrayBuffer cannot be allocated
EncodeRejected ==
    /\ fn.pc = "encode"
    /\ fn' = FallBack(fn)
    /\ UNCHANGED <<now, storage, calls, started>>

\* audioContext.close() resolves: the processed blob is returned
CloseResolved ==
    /\ fn.pc = "close"
    /\ fn' = [fn EXCEPT !.pc = "returned", !.open = @ - 1]
    /\ UNCHANGED <<now, storage, calls, started>>

\* transcribeAudio resumes after applyNoiseReduction
AfterNoise ==
    /\ fn.name = "transcribeAudio" /\ fn.pc = "returned"
    /\ fn.f = "applyNoiseReduction"
    /\ LET got == [fn EXCEPT !.payload = fn.out,
                             !.noise = IF fn.fellBack THEN "original" ELSE "filtered"]
       IN  fn' = IF ShouldCompress(fn.original.size)
                 THEN Enter(got, "compressAudio", fn.out)
                 ELSE [got EXCEPT !.pc = "formData"]
    /\ UNCHANGED <<now, storage, calls, started>>

\* transcribeAudio resumes after compressAudio
AfterCompress ==
    /\ fn.name = "transcribeAudio" /\ fn.pc = "returned"
    /\ fn.f = "compressAudio"
    /\ fn' = [fn EXCEPT !.payload = fn.out, !.pc = "formData",
                        !.compress = IF fn.fellBack THEN "original" ELSE "compressed"]
    /\ UNCHANGED <<now, storage, calls, started>>

NextAudio ==
    \/ \E size \in PipelineSizes : ProcessStart(size)
    \/ \E size \in PipelineSizes : CompressStart(size)
    \/ CtxCreated
    \/ CtxThrew
    \/ BufferResolved
    \/ ReadRejected
    \/ \E b \in (IF fn.name = "compressAudio" THEN CompressAudio ELSE PipelineAudio) :
          DecodeResolved(b)
    \/ CopyFrame
    \/ EncodeResolved
    \/ EncodeRejected
    \/ CloseResolved
    \/ AfterNoise
    \/ AfterCompress

AudioSpec == InitAudio /\ [][NextAudio]_vars

-----------------------------------------------------------------------------
(* Overlapping calls: the client is a singleton whose async methods may be *)
(* entered again while an earlier call is suspended at an await.  Calls    *)
(* of sendChatMessage for one message and of transcribeAudio for one       *)
(* recording with the same content hash overlap here.                      *)

ConcSlots == {1, 2}

InitConcurrent ==
    /\ now = 0
    /\ storage = << >>
    /\ calls = [c \in ConcSlots |-> Idle]
    /\ started = 0
    /\ fn = NoEval

NextConcurrent ==
    \/ Tick
    \/ \E c \in ConcSlots, r \in 0..MaxConcRetry : Start(c, "chat", Message(<<65, 97>>), r)
    \/ \E c \in ConcSlots : Start(c, "transcribe", Blob(<<65, 97>>, 200 * 1024), 0)
    \/ \E c \in ConcSlots : NoiseResolved(c, "filtered")
    \/ \E c \in ConcSlots : HashResolved(c)
    \/ \E c \in ConcSlots, e \in FetchRejections : FetchRejected(c, e)
    \/ \E c \in ConcSlots : TimeoutFired(c)
    \/ \E c \in ConcSlots, s \in ResponseStatuses : FetchResolved(c, s)
    \/ \E c \in ConcSlots, b \in BodyKinds : ErrorBodySettled(c, b)
    \/ \E c \in ConcSlots, b \in BodyKinds : OkBodyBroken(c, b)
    \/ \E c \in ConcSlots, x \in Texts : OkBodyParsed(c, x)
    \/ \E c \in ConcSlots : Woke(c)

Concurrent == InitConcurrent /\ [][NextConcurrent]_vars

-----------------------------------------------------------------------------
(* Calls followed to their end.  What the event loop is taken to deliver:  *)
(* the promise of createHash settles, the processing functions return,     *)
(* the timer of a backoff sleep fires, and the timer set by                *)
(* fetchWithTimeout fires unless fetch settles first.  Nothing is assumed  *)
(* about the backend: a response, or the body of a response, may never     *)
(* arrive.                                                                 *)

NextFair ==
    \/ Tick
    \/ \E c \in Slots, r \in 0..MaxFairRetry :
          Start(c, "transcribe", Blob(<<66, 66>>, 200 * 1024 + 1), r)
    \/ \E c \in Slots, r \in 0..MaxFairRetry : Start(c, "chat", Message(<<65, 97>>), r)
    \/ \E c \in Slots : HashResolved(c)
    \/ \E c \in Slots : HashRejected(c)
    \/ \E c \in Slots, o \in {"filtered", "original"} : NoiseResolved(c, o)
    \/ \E c \in Slots, o \in {"compressed", "original"} : CompressResolved(c, o)
    \/ \E c \in Slots, e \in FetchRejections : FetchRejected(c, e)
    \/ \E c \in Slots : TimeoutFired(c)
    \/ \E c \in Slots, s \in ResponseStatuses : FetchResolved(c, s)
    \/ \E c \in Slots, b \in BodyKinds : ErrorBodySettled(c, b)
    \/ \E c \in Slots, b \in BodyKinds : OkBodyBroken(c, b)
    \/ \E c \in Slots, x \in Texts : OkBodyParsed(c, x)
    \/ \E c \in Slots : Woke(c)

Fairness ==
    \A c \in Slots :
        /\ WF_vars(calls[c].pc = "hash" /\ (HashResolved(c) \/ HashRejected(c)))
        /\ WF_vars(\E o \in {"filtered", "original"} : NoiseResolved(c, o))
        /\ WF_vars(\E o \in {"compressed", "original"} : CompressResolved(c, o))
        /\ WF_vars(Woke(c))
        /\ WF_vars(TimeoutFired(c))

FairSpec == Init /\ [][NextFair]_vars /\ Fairness

-----------------------------------------------------------------------------
(* Calls as the application makes them: with the default retryAttempts, or *)
(* with fewer.                                                             *)

CallRetryChoices == (-1)..RETRY_ATTEMPTS

NextCall ==
    \/ Tick
    \/ \E c \in Slots, input \in AudioBlobs, r \in CallRetryChoices :
          Start(c, "transcribe", input, r)
    \/ \E c \in Slots, input \in Messages, r \in CallRetryChoices : Start(c, "chat", input, r)
    \/ \E c \in Slots : HashResolved(c)
    \/ \E c \in Slots : HashRejected(c)
    \/ \E c \in Slots, o \in {"filtered", "original"} : NoiseResolved(c, o)
    \/ \E c \in Slots, o \in {"compressed", "original"} : CompressResolved(c, o)
    \/ \E c \in Slots, e \in FetchRejections : FetchRejected(c, e)
    \/ \E c \in Slots : TimeoutFired(c)
    \/ \E c \in Slots, s \in ResponseStatuses : FetchResolved(c, s)
    \/ \E c \in Slots, b \in BodyKinds : ErrorBodySettled(c, b)
    \/ \E c \in Slots, b \in BodyKinds : OkBodyBroken(c, b)
    \/ \E c \in Slots, x \in Texts : OkBodyParsed(c, x)
    \/ \E c \in Slots : Woke(c)

CallSpec == Init /\ [][NextCall]_vars

-----------------------------------------------------------------------------
(* The App component: one recording is processed at a time.  fn holds the  *)
(* component's state and the position of processAudio; calls[1] is the     *)
(* ApiClient call that processAudio awaits.  rec numbers the recordings,   *)
(* and appended lists, by recording, the user messages ever appended.      *)

NoRetry == [present |-> FALSE, rec |-> 0, blob |-> NoInput]
RetryOf(rec, blob) == [present |-> TRUE, rec |-> rec, blob |-> blob]

UserMsg(content, rec) == [type |-> "user", content |-> content, rec |-> rec]
AssistantMsg(content, rec) == [type |-> "assistant", content |-> content, rec |-> rec]

AppIdle ==
    [name |-> "App", pc |-> "idle", rec |-> 0, blob |-> NoInput,
     isProcessing |-> FALSE, messages |-> <<>>, transcript |-> Str(<<>>),
     error |-> NoError, retryAction |-> NoRetry,
     recordings |-> 0, retries |-> 0, run |-> 0,
     got |-> NoValue, chatArg |-> NoValue, appended |-> <<>>]

InitApp ==
    /\ now = 0
    /\ storage = << >>
    /\ calls = [c \in Slots |-> Idle]
    /\ started = 0
    /\ fn = AppIdle

\* apiClient.transcribeAudio(blob) or apiClient.sendChatMessage(message),
\* with the default retryAttempts: the call up to its first await
Called(prev, kind, input) ==
    [Idle EXCEPT !.pc = "hash", !.kind = kind, !.input = input,
                 !.retryAttempts = RETRY_ATTEMPTS,
                 !.prior = PriorOf(prev, kind, input)]

\* processAudio up to its first await: setError(null), then transcribeAudio
ProcessAudio(app, rec, blob) ==
    [app EXCEPT !.pc = "transcribing", !.rec = rec, !.blob = blob,
                !.error = NoError, !.run = @ + 1,
                !.got = NoValue, !.chatArg = NoValue]

\* the catch of processAudio: an AppError is a plain object, not an Error,
\* so it is classified again, under the context 'processing'
ProcessAudioCatch(error) ==
    IF error.k = "AppError" THEN createError("UNKNOWN_ERROR", error, TRUE)
    ELSE handleApiError(error, "processing").value

\* catch and finally of processAudio
Caught(app, error) ==
    [app EXCEPT !.pc = "idle", !.error = ProcessAudioCatch(error),
                !.retryAction = RetryOf(app.rec, app.blob),
                !.isProcessing = FALSE]

\* the user stops a recording: stopRecording, and onstop calls processAudio
RecordingStopped(blob) ==
    /\ fn.pc = "idle"
    /\ ~fn.isProcessing
    /\ fn.recordings < MaxRecordings
    /\ fn' = ProcessAudio([fn EXCEPT !.isProcessing = TRUE, !.recordings = @ + 1],
                          fn.recordings + 1, blob)
    /\ calls' = [calls EXCEPT ![1] = Called(@, "transcribe", blob)]
    /\ started' = started + 1
    /\ UNCHANGED <<now, storage>>

\* transcribeAudio returned: the transcript is shown and appended as the
\* user's message, and sendChatMessage is called with it
TranscriptionReturned ==
    LET userMessage == calls[1].result
    IN  /\ fn.pc = "transcribing"
        /\ calls[1].pc = "done"
        /\ fn' = [fn EXCEPT !.pc = "chatting", !.transcript = userMessage,
                            !.messages = Append(@, UserMsg(userMessage, fn.rec)),
                            !.appended = Append(@, fn.rec),
                            !.got = userMessage, !.chatArg = userMessage]
        /\ calls' = [calls EXCEPT ![1] = Called(@, "chat", Message(userMessage.v))]
        /\ started' = started + 1
        /\ UNCHANGED <<now, storage>>

\* variant: a failure of transcribeAudio whose error is dropped
TranscriptionThrew_Dropped ==
    /\ fn.pc = "transcribing"
    /\ calls[1].pc = "failed"
    /\ fn' = [fn EXCEPT !.pc = "idle", !.isProcessing = FALSE]
    /\ calls' = [calls EXCEPT ![1] = Idle]
    /\ UNCHANGED <<now, storage, started>>

\* transcribeAudio threw
TranscriptionThrew ==
    /\ fn.pc = "transcribing"
    /\ calls[1].pc = "failed"
    /\ fn' = Caught(fn, calls[1].thrown)
    /\ calls' = [calls EXCEPT ![1] = Idle]
    /\ UNCHANGED <<now, storage, started>>

\* sendChatMessage returned: the reply is appended
ChatReturned ==
    /\ fn.pc = "chatting"
    /\ calls[1].pc = "done"
    /\ fn' = [fn EXCEPT !.pc = "idle", !.isProcessing = FALSE,
                        !.messages = Append(@, AssistantMsg(calls[1].result, fn.rec))]
    /\ calls' = [calls EXCEPT ![1] = Idle]
    /\ UNCHANGED <<now, storage, started>>

\* sendChatMessage threw
ChatThrew ==
    /\ fn.pc = "chatting"
    /\ calls[1].pc = "failed"
    /\ fn' = Caught(fn, calls[1].thrown)
    /\ calls' = [calls EXCEPT ![1] = Idle]
    /\ UNCHANGED <<now, storage, started>>

\* the user clicks Retry: setError(null), retryAction(), setRetryAction(null)
HandleRetry ==
    /\ fn.pc = "idle"
    /\ fn.retryAction.present
    /\ fn.retries < MaxAppRetries
    /\ fn' = ProcessAudio([fn EXCEPT !.retryAction = NoRetry, !.retries = @ + 1],
                          fn.retryAction.rec, fn.retryAction.blob)
    /\ calls' = [calls EXCEPT ![1] = Called(@, "transcribe", fn.retryAction.blob)]
    /\ started' = started + 1
    /\ UNCHANGED <<now, storage>>

\* the user dismisses the error
HandleErrorDismiss ==
    /\ fn.pc = "idle"
    /\ fn.error # NoError
    /\ fn' = [fn EXCEPT !.error = NoError, !.retryAction = NoRetry]
    /\ UNCHANGED <<now, storage, calls, started>>

\* the user clears the chat
ClearChat ==
    /\ fn.pc = "idle"
    /\ Len(fn.messages) > 0
    /\ fn' = [fn EXCEPT !.messages = <<>>, !.transcript = Str(<<>>), !.error = NoError]
    /\ UNCHANGED <<now, storage, calls, started>>

NextApp ==
    \/ Tick
    \/ RecordingStopped(Blob(<<65, 97>>, 200 * 1024))
    \/ TranscriptionReturned
    \/ TranscriptionThrew
    \/ ChatReturned
    \/ ChatThrew
    \/ HandleRetry
    \/ HandleErrorDismiss
    \/ ClearChat
    \/ HashResolved(1)
    \/ HashRejected(1)
    \/ \E o \in {"filtered", "original"} : NoiseResolved(1, o)
    \/ \E e \in FetchRejections : FetchRejected(1, e)
    \/ TimeoutFired(1)
    \/ \E s \in ResponseStatuses : FetchResolved(1, s)
    \/ \E b \in BodyKinds : ErrorBodySettled(1, b)
    \/ \E b \in BodyKinds : OkBodyBroken(1, b)
    \/ \E x \in Texts : OkBodyParsed(1, x)
    \/ Woke(1)

AppSpec == InitApp /\ [][NextApp]_vars

-----------------------------------------------------------------------------
(* Properties *)

\* C1: whenever the cache holds an unexpired entry under the call's
\* namespaced key at the cache check, whatever the stored value, the call
\* returns that value, issues no request, runs no audio processing and does
\* not sleep.
C1_CacheHitReturnsAtOnce ==
    \A c \in Slots :
        calls[c].held.present =>
            /\ calls[c].pc = "done"
            /\ calls[c].result = calls[c].held.data
            /\ calls[c].requests = 0
            /\ calls[c].noise = "none" /\ calls[c].compress = "none"
            /\ calls[c].sleeps = <<>>

\* C2: a transcribeAudio call that follows a successful one for the same
\* audio, its cache check within the transcription TTL of that result,
\* returns the transcript the first call obtained and issues no request,
\* whatever transcript the backend returned.
C2_SecondCallServedFromCache ==
    \A c \in Slots :
        (calls[c].kind = "transcribe" /\ calls[c].prior.present /\ calls[c].hash # <<>>) =>
            /\ calls[c].pc = "done"
            /\ calls[c].result = calls[c].prior.value
            /\ calls[c].requests = 0

AllRetryable(fails) == \A i \in 1..Len(fails) : fails[i] = TRUE

\* the key a result belongs under: namespace, ':' and the hash of the input
\* the caller passed
ExpectedKey(call) ==
    (IF call.kind = "transcribe" THEN PrefixTranscription ELSE PrefixChat)
        \o <<58>> \o createHash(call.input)

\* C3 (state part): a call that returned a fetched result issued one request
\* per attempt, every attempt before the last having failed retryably.
C3_RequestsOnSuccess ==
    \A c \in Slots :
        (calls[c].pc = "done" /\ calls[c].requests > 0) =>
            /\ calls[c].requests = Len(calls[c].fails) + 1
            /\ calls[c].attempt = Len(calls[c].fails)
            /\ calls[c].attempt <= calls[c].retryAttempts
            /\ AllRetryable(calls[c].fails)
            /\ calls[c].result.t = "string"

\* C3 (step part): the step in which a call returns a fetched result leaves
\* that result in the cache under the key of the original input.
C3_CachedOnReturn ==
    \A c \in Slots :
        (calls[c].pc = "body" /\ calls'[c].pc = "done") =>
            /\ ExpectedKey(calls'[c]) \in DOMAIN storage'
            /\ storage'[ExpectedKey(calls'[c])].data = calls'[c].result

\* C3: retry to success: after k retryable failures and a success, k+1
\* requests were issued, the result of the last attempt is returned, and the
\* cache holds it under the namespaced key of the original input when the
\* call returns.
C3_RetryToSuccess == []C3_RequestsOnSuccess /\ [][C3_CachedOnReturn]_vars

C3_Witness ==
    \E c \in Slots :
        /\ calls[c].pc = "done" /\ calls[c].requests = 3
        /\ calls[c].retryAttempts = 3 /\ calls[c].kind = "transcribe"
        /\ calls[c].input.size > 200 * 1024
        /\ ExpectedKey(calls[c]) \in DOMAIN storage
        /\ storage[ExpectedKey(calls[c])].data = calls[c].result

\* C4: once an attempt fails with an error classified as not retryable, the
\* call has failed with exactly that AppError: no further request, no sleep
\* after it; on attempt 0 that is one request.
C4_NonRetryableGivesUp ==
    \A c \in Slots :
        LET f == calls[c].fails
        IN  (f # <<>> /\ f[Len(f)] = FALSE) =>
                /\ calls[c].pc = "failed"
                /\ calls[c].thrown = calls[c].lastErr
                /\ calls[c].thrown.k = "AppError"
                /\ calls[c].thrown.retryable = FALSE
                /\ calls[c].attempt = Len(f) - 1
                /\ calls[c].requests = Len(f)
                /\ Len(calls[c].sleeps) = Len(f) - 1

C4_Witness ==
    \E c \in Slots :
        /\ calls[c].pc = "failed" /\ calls[c].fails = <<FALSE>>
        /\ calls[c].retryAttempts = 3 /\ calls[c].requests = 1
        /\ calls[c].thrown.type = "API_ERROR"

\* C5: attempts run from 0 to retryAttempts, one request each, so never more
\* than retryAttempts + 1 requests; when every attempt fails retryably the
\* call fails after retryAttempts + 1 requests and retryAttempts sleeps with
\* the AppError of the last attempt.
C5_RetryBudget ==
    \A c \in Slots :
        LET call == calls[c]
        IN  /\ call.requests <= (IF call.retryAttempts >= 0 THEN call.retryAttempts + 1 ELSE 0)
            /\ (call.pc \in {"fetch", "body", "sleep"} =>
                    /\ call.attempt >= 0 /\ call.attempt <= call.retryAttempts
                    /\ call.requests = call.attempt + 1)
            /\ (call.pc = "failed" /\ call.fails # <<>> /\ AllRetryable(call.fails)) =>
                    /\ call.attempt = call.retryAttempts
                    /\ Len(call.fails) = call.retryAttempts + 1
                    /\ call.requests = call.retryAttempts + 1
                    /\ Len(call.sleeps) = call.retryAttempts
                    /\ call.thrown = call.lastErr

C5_Witness ==
    \E c \in Slots :
        /\ calls[c].pc = "failed" /\ calls[c].retryAttempts = RETRY_ATTEMPTS
        /\ calls[c].requests = 4 /\ Len(calls[c].sleeps) = 3
        /\ AllRetryable(calls[c].fails) /\ Len(calls[c].fails) = 4

\* the schedule the claim states
DelayTable(n) ==
    CASE n = 0 -> 1000 [] n = 1 -> 2000 [] n = 2 -> 4000 [] n = 3 -> 8000
      [] OTHER -> 10000

\* C6: getRetryDelay(n) is min(1000 * 2^n, 10000): 1000, 2000, 4000, 8000
\* and then 10000; the k-th sleep of a call uses n = k - 1, so the delays of
\* a call never decrease and never exceed 10000.
C6_BackoffSchedule ==
    /\ fn.name = "getRetryDelay" => fn.out = DelayTable(fn.attempt)
    /\ \A c \in Slots :
          \A k \in 1..Len(calls[c].sleeps) :
              /\ calls[c].sleeps[k] = DelayTable(k - 1)
              /\ calls[c].sleeps[k] <= 10000
              /\ k > 1 => calls[c].sleeps[k - 1] <= calls[c].sleeps[k]

C6_Witness ==
    \E c \in Slots : Len(calls[c].sleeps) = 5 /\ calls[c].sleeps[5] = 10000

\* C7: whatever makes a call fail (hashing, the request, the response body,
\* the retry loop), what the caller gets is an AppError of one of the six
\* types, the raw error being only its originalError.
C7_OnlyAppErrorsEscape ==
    \A c \in Slots :
        calls[c].pc = "failed" =>
            /\ calls[c].thrown.k = "AppError"
            /\ calls[c].thrown.type \in ErrorTypes
            /\ calls[c].thrown.originalError.k = "raw"

C7_Witness ==
    \E c \in Slots :
        /\ calls[c].pc = "failed" /\ calls[c].requests = 0
        /\ calls[c].retryAttempts >= 0
        /\ calls[c].thrown.type = "TRANSCRIPTION_ERROR"
        /\ calls[c].thrown.originalError = NotReadableError

\* C8: handleApiError is total: for every raw error value (null and
\* undefined included) and every context it returns an AppError and does not
\* throw.
C8_ClassifierTotal ==
    fn.name = "handleApiError" =>
        /\ fn.out.threw = FALSE
        /\ fn.out.value.k = "AppError"

\* an HTTP status code, as opposed to a missing or zero status field
IsHttpStatus(error) == error.hasStatus /\ error.status >= 100 /\ error.status <= 599

\* C9: a failure that carries an HTTP status code and is no network failure
\* is an API_ERROR, not retryable for 400 and 401 and retryable for every
\* other code; so are the failures handleResponse raises inside a call.
C9_StatusClassification ==
    /\ (/\ fn.name = "handleApiError"
        /\ fn.error.cls \in ErrorClasses
        /\ IsHttpStatus(fn.error)
        /\ ~(fn.error.cls = "TypeError" /\ fn.error.fetchMsg)) =>
            /\ fn.out.threw = FALSE
            /\ fn.out.value.type = "API_ERROR"
            /\ fn.out.value.retryable = (fn.error.status \notin {400, 401})
            /\ fn.out.value.originalError = fn.error
    /\ \A c \in Slots :
          (calls[c].lastErr.k = "AppError" /\ IsHttpStatus(calls[c].lastErr.originalError)) =>
              /\ calls[c].lastErr.type = "API_ERROR"
              /\ calls[c].lastErr.retryable =
                    (calls[c].lastErr.originalError.status \notin {400, 401})

C9_Witness ==
    /\ fn.name = "handleApiError"
    /\ fn.error.cls = "Error" /\ fn.error.hasStatus /\ fn.error.status = 404
    /\ fn.out.value.type = "API_ERROR" /\ fn.out.value.retryable = TRUE

\* the type the stated order of rules gives
TypeByPrecedence(error, context) ==
    IF error.cls = "TypeError" /\ error.fetchMsg THEN "NETWORK_ERROR"
    ELSE IF error.hasStatus /\ error.status # 0 THEN "API_ERROR"
    ELSE IF context = "transcription" THEN "TRANSCRIPTION_ERROR"
    ELSE IF context = "chat" THEN "CHAT_ERROR"
    ELSE "UNKNOWN_ERROR"

\* C10: handleApiError decides by network failure, then status, then context
\* 'transcription', then context 'chat', then UNKNOWN_ERROR, the first rule
\* that applies winning; network failures and the results of the three last
\* rules are retryable.
C10_Precedence ==
    (fn.name = "handleApiError" /\ ~fn.out.threw) =>
        /\ fn.out.value.type = TypeByPrecedence(fn.error, fn.context)
        /\ fn.out.value.type \in {"NETWORK_ERROR", "TRANSCRIPTION_ERROR", "CHAT_ERROR",
                                  "UNKNOWN_ERROR"} => fn.out.value.retryable = TRUE

C10_Witness ==
    /\ fn.name = "handleApiError"
    /\ fn.error.hasStatus /\ fn.error.status = 401 /\ fn.context = "transcription"
    /\ fn.out.value.type = "API_ERROR" /\ fn.out.value.retryable = FALSE

\* an attempt that ended because its timeout aborted the request
TimedOut(call) == call.lastErr.k = "AppError" /\ call.lastErr.originalError = AbortError

\* C11: an attempt aborted by the timeout is classified NETWORK_ERROR and
\* retryable, in transcribeAudio and in sendChatMessage.
C11_TimeoutIsNetworkError ==
    \A c \in Slots :
        TimedOut(calls[c]) =>
            /\ calls[c].lastErr.type = "NETWORK_ERROR"
            /\ calls[c].lastErr.retryable = TRUE

\* C12 (state part): after a timeout abort on an attempt below retryAttempts
\* the call is in its backoff sleep, for the delay of that attempt; and a
\* timer is pending only while its own fetch is in flight.
C12_LoopSurvivesTimeout ==
    \A c \in DOMAIN calls :
        LET call == calls[c]
        IN  /\ (TimedOut(call) /\ call.attempt < call.retryAttempts) =>
                    /\ call.pc = "sleep"
                    /\ Len(call.sleeps) = call.attempt + 1
                    /\ call.sleeps[call.attempt + 1] = getRetryDelay(call.attempt)
            /\ call.timer => call.pc = "fetch"

\* C12 (step part): the sleep is followed by the next attempt's request
C12_NextAttemptFollows ==
    \A c \in DOMAIN calls :
        (calls[c].pc = "sleep" /\ calls'[c] # calls[c]) =>
            /\ calls'[c].pc = "fetch"
            /\ calls'[c].attempt = calls[c].attempt + 1
            /\ calls'[c].requests = calls[c].requests + 1

\* C12 (step part): the step in which a timeout ends an attempt of one call
\* leaves every other call as it was
C12_AbortIsLocal ==
    \A c \in DOMAIN calls :
        (calls[c].pc = "fetch" /\ TimedOut(calls'[c])) =>
            \A d \in DOMAIN calls \ {c} : calls'[d] = calls[d]

\* C12: a timeout cancels the in-flight request of the current attempt only:
\* the retry loop goes on to sleep and to the next attempt, and no request
\* of another call or of a later attempt is aborted by it.
C12_TimeoutCancelsOneRequest ==
    /\ []C12_LoopSurvivesTimeout
    /\ [][C12_NextAttemptFollows]_vars
    /\ [][C12_AbortIsLocal]_vars

C12_Witness ==
    /\ TimedOut(calls[1]) /\ calls[1].pc = "sleep" /\ calls[1].attempt = 0
    /\ 2 \in DOMAIN calls /\ calls[2].pc = "fetch" /\ calls[2].attempt = 1

\* the last write to the key of the operation just made, if any
LastWrite == fn.written[fn.key]
ExpiryOf(w) == w.t + w.ttl

\* C13: after set(key, v, ttl) at t and no later write to the key, a get at
\* a time up to t + ttl returns v and leaves the entry stored; a get after
\* t + ttl returns null and the entry is gone, and has(key) from then on
\* returns false.
C13_TtlVisibility ==
    /\ (fn.name = "get" /\ LastWrite.present) =>
          IF fn.at <= ExpiryOf(LastWrite)
          THEN /\ fn.out = LastWrite.v
               /\ fn.key \in DOMAIN storage
               /\ storage[fn.key].data = LastWrite.v
               /\ storage[fn.key].expiresAt = ExpiryOf(LastWrite)
          ELSE /\ fn.out = Null
               /\ fn.key \notin DOMAIN storage
    /\ (fn.name = "has" /\ LastWrite.present /\ fn.at > ExpiryOf(LastWrite)) =>
          /\ fn.out = FALSE
          /\ fn.key \notin DOMAIN storage

C13_Witness ==
    /\ fn.name = "get" /\ LastWrite.present /\ LastWrite.v = Str(<<65, 97>>)
    /\ LastWrite.ttl = DEFAULT_TTL /\ LastWrite.t > 0
    /\ fn.at > ExpiryOf(LastWrite)
    /\ fn.out = Null /\ fn.key \notin DOMAIN storage

\* C14: set on a key replaces whatever entry the key had: the entry is the
\* new value with expiry (time of this set) + ttl, also when that is sooner
\* than the old expiry, and a get before then returns the new value.
C14_Overwrite ==
    /\ fn.name = "set" =>
          /\ fn.key \in DOMAIN storage
          /\ storage[fn.key] =
                [data |-> fn.data, timestamp |-> fn.at, expiresAt |-> fn.at + fn.ttl]
    /\ \A k \in DOMAIN storage :
          /\ fn.written[k].present
          /\ storage[k].data = fn.written[k].v
          /\ storage[k].expiresAt = ExpiryOf(fn.written[k])

\* the key held an unexpired, longer-lived entry with another value; the
\* set shortened its life
C14_Witness ==
    /\ fn.name = "set" /\ fn.at > 0
    /\ fn.replaced.present /\ fn.replaced.data # fn.data
    /\ fn.replaced.expiresAt > fn.at + fn.ttl
    /\ storage[fn.key].data = fn.data
    /\ storage[fn.key].expiresAt = fn.at + fn.ttl

\* C15: has(key) is true exactly when the cache holds an unexpired entry
\* for the key, whatever value was stored.
C15_HasIffHeld ==
    fn.name = "has" =>
        (fn.out = (LastWrite.present /\ fn.at <= ExpiryOf(LastWrite)))

-----------------------------------------------------------------------------
(* The AudioProcessor                                                      *)

\* the steps inside applyNoiseReduction and compressAudio
InFunction == {"ctx", "arrayBuffer", "decode", "copy", "encode", "close"}

\* transcribeAudio resumed after a function of the processor returned
Resumed == fn.name = "transcribeAudio" /\ fn.pc = "returned" /\ fn' # fn

\* C16: audio processing never aborts the pipeline.  A function of the
\* processor is left only by returning; when a step inside it failed it
\* returns the very blob it was given; transcribeAudio goes on with the blob
\* returned, to compressAudio or to the request, and when every step failed
\* the request carries the recorded blob.
C16_FallbackReturnsGiven ==
    /\ fn.pc \in InFunction \cup {"idle", "returned", "formData"}
    /\ fn.pc = "returned" /\ fn.fellBack => fn.out = fn.given
    /\ fn.pc = "formData" /\ fn.noise = "original" /\ fn.compress \in {"none", "original"}
           => fn.payload = fn.original
C16_EveryExitReturns ==
    fn.pc \in InFunction /\ fn'.pc \notin InFunction => fn'.pc = "returned"
C16_PipelineGoesOn ==
    Resumed =>
        /\ fn'.payload = fn.out
        /\ \/ fn'.pc = "formData"
           \/ fn'.pc = "ctx" /\ fn'.f = "compressAudio" /\ fn'.given = fn.out
C16_ProcessingNeverAborts ==
    /\ []C16_FallbackReturnsGiven
    /\ [][C16_EveryExitReturns]_vars
    /\ [][C16_PipelineGoesOn]_vars

\* noise reduction and compression both failed, and the request is built
\* from the recorded blob
C16_Witness ==
    /\ fn.pc = "formData"
    /\ fn.noise = "original" /\ fn.compress = "original"
    /\ fn.payload = fn.original

\* C17: every AudioContext opened by applyNoiseReduction or compressAudio is
\* closed before the function returns, on the success path and on every
\* fallback path: no context is open when no function of the processor runs.
C17_ContextsClosed == fn.pc \notin InFunction => fn.open = 0

\* C18: in transcribeAudio compressAudio is called if and only if the
\* recorded blob is larger than 204800 bytes, and applyNoiseReduction is
\* called first for every blob.
C18_CompressionOrder ==
    fn.name = "transcribeAudio" =>
        /\ fn.f \in {"applyNoiseReduction", "compressAudio"}
        /\ fn.f = "compressAudio" => fn.noise # "none" /\ fn.original.size > 204800
        /\ fn.pc = "formData" =>
               /\ fn.noise # "none"
               /\ fn.compress # "none" <=> fn.original.size > 204800
C18_NoiseReductionFirst ==
    fn.pc = "idle" /\ fn'.name = "transcribeAudio" =>
        fn'.f = "applyNoiseReduction" /\ fn'.pc = "ctx" /\ fn'.given = fn'.original
C18_ConditionalCompression ==
    /\ []C18_CompressionOrder
    /\ [][C18_NoiseReductionFirst]_vars

\* a blob of exactly 204800 bytes went through noise reduction and reached
\* the request uncompressed
C18_Witness ==
    /\ fn.name = "transcribeAudio" /\ fn.pc = "formData"
    /\ fn.original.size = 204800
    /\ fn.noise = "filtered" /\ fn.compress = "none"

\* min(r, 22050), and the exact quotients of the frame arithmetic
TargetRate(r) == IF r < 22050 THEN r ELSE 22050
ExactFrames(n, r) == (n * TargetRate(r)) \div r
ExactIndex(i, r) == (i * r) \div TargetRate(r)

\* compressAudio created its output buffer; it returned the encoded blob
Compressed == fn.f = "compressAudio" /\ fn.target # NoBuffer
Encoded == Compressed /\ fn.pc \in {"close", "returned"} /\ ~fn.fellBack

\* the output buffer is mono at min(r, 22050), and the blob encodes it in
\* 44 + 2 * frames bytes with size fields 36 + 2 * frames and 2 * frames
MonoAtTargetRate(frames) ==
    /\ fn.target.numberOfChannels = 1
    /\ fn.target.sampleRate = TargetRate(fn.source.sampleRate)
    /\ fn.target.sampleRate <= fn.source.sampleRate /\ fn.target.sampleRate <= 22050
    /\ Encoded =>
           /\ fn.out.kind = "wav" /\ fn.out.channels = 1
           /\ fn.out.sampleRate = fn.target.sampleRate
           /\ fn.out.size = 44 + 2 * frames
           /\ fn.out.riffSize = 36 + 2 * frames
           /\ fn.out.dataSize = 2 * frames

\* C19 as stated: when compressAudio succeeds on r Hz and n frames the output
\* is mono at min(r, 22050), has floor(n * min(r, 22050) / r) frames, output
\* frame i reads source frame floor(i * r / min(r, 22050)) < n, and the blob
\* has 44 + 2 * frames bytes with size fields 36 + 2 * frames and 2 * frames.
C19_ExactDownsampling ==
    Compressed =>
        /\ MonoAtTargetRate(ExactFrames(fn.source.length, fn.source.sampleRate))
        /\ fn.target.length = ExactFrames(fn.source.length, fn.source.sampleRate)
        /\ fn.i > 0 =>
               /\ fn.index = ExactIndex(fn.i - 1, fn.source.sampleRate)
               /\ fn.index < fn.source.length

\* C19 amended: the frame count and the source index are computed in double
\* arithmetic from the rounded ratio, so the output has floor(n * t / r)
\* frames or one fewer and frame i reads source frame floor(i * r / t) or the
\* one before it, always < n; the blob sizes follow the frames the output has.
C19_RoundedDownsampling ==
    Compressed =>
        /\ MonoAtTargetRate(fn.target.length)
        /\ ExactFrames(fn.source.length, fn.source.sampleRate) - fn.target.length \in {0, 1}
        /\ fn.i > 0 =>
               /\ ExactIndex(fn.i - 1, fn.source.sampleRate) - fn.index \in {0, 1}
               /\ fn.index < fn.source.length

\* 22 frames at 32340 Hz came back as 14 frames at 22050 Hz, one fewer than
\* floor(22 * 22050 / 32340) = 15, in a blob of 72 bytes
C19_Witness ==
    /\ fn.name = "compressAudio" /\ fn.pc = "returned" /\ ~fn.fellBack
    /\ fn.source = Decoded(32340, 22, 2)
    /\ fn.target = Decoded(22050, 14, 1)
    /\ fn.i = 14
    /\ fn.out.size = 72

-----------------------------------------------------------------------------
(* Capture failures                                                        *)

\* C20: handleMicrophoneError always returns the type MICROPHONE_ERROR, with
\* the raw error kept; retryable is false exactly when the raw error's name
\* is NotAllowedError, NotFoundError or NotSupportedError.
C20_MicrophoneClassification ==
    fn.name = "handleMicrophoneError" =>
        /\ ~fn.out.threw
        /\ fn.out.value.k = "AppError"
        /\ fn.out.value.type = "MICROPHONE_ERROR"
        /\ fn.out.value.originalError = fn.error
        /\ fn.out.value.retryable = FALSE <=>
               fn.error.name \in {"NotAllowedError", "NotFoundError", "NotSupportedError"}

\* a browser without audio recording is not worth a retry
C20_Witness ==
    /\ fn.name = "handleMicrophoneError"
    /\ fn.error.name = "NotSupportedError"
    /\ fn.out.value.type = "MICROPHONE_ERROR" /\ fn.out.value.retryable = FALSE

-----------------------------------------------------------------------------
(* The ResponseCache                                                       *)

\* the createHash call and the one before it hashed the same text
SameText == fn.before.present /\ HashData(fn.before.content) = HashData(fn.data)

NamespaceKey(n, h) ==
    (IF n = "transcription" THEN PrefixTranscription ELSE PrefixChat) \o <<58>> \o h
NamespaceTtl(n) == IF n = "transcription" THEN 600000 ELSE 300000

\* what a lookup in namespace n returns at time t: the last value written
\* in that namespace under the hash, while its lifetime has not run out
Visible(n, h, t) ==
    LET w == fn.written[n, h]
    IN  IF w.present /\ t <= w.t + NamespaceTtl(n) THEN w.v ELSE Null

\* C22: transcriptions are stored only under 'transcription:<hash>' and
\* expire 600000 ms after the write, chat responses only under 'chat:<hash>'
\* and expire 300000 ms after the write, a set without a ttl expires after
\* 300000 ms; a lookup returns only what was written in its own namespace,
\* also when both namespaces are used with the same hash.
C22_NamespacesAndTtls ==
    /\ DOMAIN storage \subseteq
           {NamespaceKey(n, h) : n \in Namespaces, h \in HashesUsed} \cup {OtherKey}
    /\ \A n \in Namespaces, h \in HashesUsed :
           NamespaceKey(n, h) \in DOMAIN storage =>
               /\ fn.written[n, h].present
               /\ storage[NamespaceKey(n, h)] =
                      [data |-> fn.written[n, h].v, timestamp |-> fn.written[n, h].t,
                       expiresAt |-> fn.written[n, h].t + NamespaceTtl(n)]
    /\ OtherKey \in DOMAIN storage =>
           storage[OtherKey].expiresAt = storage[OtherKey].timestamp + 300000
    /\ fn.name \in {"cacheTranscription", "cacheChatResponse"} =>
           LET n == IF fn.name = "cacheTranscription" THEN "transcription" ELSE "chat"
           IN  /\ NamespaceKey(n, fn.hash) \in DOMAIN storage
               /\ storage[NamespaceKey(n, fn.hash)].data = fn.data
               /\ storage[NamespaceKey(n, fn.hash)].expiresAt = fn.at + NamespaceTtl(n)
    /\ fn.name = "getCachedTranscription" => fn.out = Visible("transcription", fn.hash, fn.at)
    /\ fn.name = "getCachedChatResponse" => fn.out = Visible("chat", fn.hash, fn.at)

\* a chat response "" and later a transcript "Aa" were cached under the same
\* hash, and the chat lookup returns ""
C22_Witness ==
    /\ fn.name = "getCachedChatResponse"
    /\ fn.written["chat", fn.hash] = Write(Str(<<>>), 0, CHAT_TTL)
    /\ fn.written["transcription", fn.hash] = Write(Str(<<65, 97>>), TickStep, TRANSCRIPTION_TTL)
    /\ fn.at = TickStep
    /\ fn.out = Str(<<>>)

-----------------------------------------------------------------------------
(* Overlapping calls on the shared cache                                   *)

\* the item a call that fetched its result at time t leaves under its key
ItemOf(call, t) ==
    [data |-> call.result, timestamp |-> t, expiresAt |-> t + Ttl(call.kind)]

\* the lifetime that belongs to a key: of its namespace
KeyTtl(k) ==
    IF Len(k) >= 5 /\ SubSeq(k, 1, 5) = <<99, 104, 97, 116, 58>> THEN 300000 ELSE 600000

\* call c returns a fetched result in this step
Succeeds(c) == calls[c].pc = "body" /\ calls'[c].pc = "done"

\* the call returned a result it fetched
Fetched(call) == call.pc = "done" /\ call.requests > 0

\* C23 (state part): every entry is a whole item, a value with its write
\* time and the expiry that belongs to it; and of two calls for the same
\* content that both fetched a result, the entry holds the later one's.
C23_EntriesWhole ==
    /\ \A k \in DOMAIN storage :
           /\ DOMAIN storage[k] = {"data", "timestamp", "expiresAt"}
           /\ storage[k].data \in {Str(x) : x \in Texts}
           /\ storage[k].timestamp <= now
           /\ storage[k].expiresAt = storage[k].timestamp + KeyTtl(k)
    /\ \A c, d \in DOMAIN calls :
           (/\ Fetched(calls[c]) /\ Fetched(calls[d])
            /\ KeyOf(calls[c]) = KeyOf(calls[d])
            /\ calls[c].doneAt < calls[d].doneAt
            /\ KeyOf(calls[d]) \in DOMAIN storage) =>
               storage[KeyOf(calls[d])] = ItemOf(calls[d], calls[d].doneAt)

\* C23 (step part): the storage changes only when one call returns a fetched
\* result, which puts that call's item under its key whatever was there, or
\* when expired entries are dropped; no other entry is touched.
C23_OneWriterPerStep ==
    storage' # storage =>
        \/ \E c \in DOMAIN calls :
              /\ Succeeds(c)
              /\ \A d \in DOMAIN calls \ {c} : calls'[d] = calls[d]
              /\ KeyOf(calls[c]) \in DOMAIN storage'
              /\ storage'[KeyOf(calls[c])] = ItemOf(calls'[c], now)
              /\ \A k \in DOMAIN storage' \ {KeyOf(calls[c])} :
                    k \in DOMAIN storage /\ storage'[k] = storage[k]
        \/ /\ DOMAIN storage' \subseteq DOMAIN storage
           /\ \A k \in DOMAIN storage' : storage'[k] = storage[k]
           /\ \A k \in DOMAIN storage \ DOMAIN storage' : now > storage[k].expiresAt

\* C23: interleaved calls leave the shared cache consistent: entries are
\* whole items written by one successful call, and the last call to succeed
\* wins.
C23_InterleavingSafe ==
    /\ []C23_EntriesWhole
    /\ [][C23_OneWriterPerStep]_vars

\* two overlapping calls for "Aa" both missed the cache and both fetched;
\* the first got "Aa" at time 0, the second "" one tick later, and the entry
\* holds ""
C23_Witness ==
    /\ 2 \in DOMAIN calls
    /\ Fetched(calls[1]) /\ Fetched(calls[2])
    /\ ~calls[1].held.present /\ ~calls[2].held.present
    /\ KeyOf(calls[1]) = KeyOf(calls[2])
    /\ calls[1].doneAt = 0 /\ calls[2].doneAt = TickStep
    /\ calls[1].result = Str(<<65, 97>>) /\ calls[2].result = Str(<<>>)
    /\ KeyOf(calls[2]) \in DOMAIN storage
    /\ storage[KeyOf(calls[2])] = ItemOf(calls[2], TickStep)

-----------------------------------------------------------------------------
(* Cache.get between other operations *)

\* the step is a lookup: Cache.get, or Cache.has which calls it
Lookup == fn'.name \in {"get", "has"} /\ fn' # fn

\* C24: Cache.get checks the expiry and deletes in one uninterrupted step:
\* whatever other operations come before and after it, a lookup removes at
\* most the entry under its own key, only when that entry had expired at the
\* time of the lookup, in which case it reports a miss, and it leaves every
\* other entry, and every unexpired entry, exactly as it found it.
C24_GetIsAtomic ==
    [][Lookup =>
        /\ DOMAIN storage' \subseteq DOMAIN storage
        /\ \A k \in DOMAIN storage :
              IF k \in DOMAIN storage'
              THEN storage'[k] = storage[k]
              ELSE /\ k = fn'.key
                   /\ fn'.at > storage[k].expiresAt
                   /\ IF fn'.name = "get" THEN fn'.out = Null ELSE fn'.out = FALSE
        /\ \A k \in DOMAIN storage :
              ~(fn'.at > storage[k].expiresAt) => k \in DOMAIN storage']_vars

\* a get found the expired entry of an earlier set and deleted it, while the
\* unexpired entry under the other key stayed
C24_Witness ==
    /\ fn.name = "get"
    /\ fn.out = Null
    /\ fn.written[fn.key].present
    /\ fn.at > fn.written[fn.key].t + fn.written[fn.key].ttl
    /\ fn.key \notin DOMAIN storage
    /\ \E k \in DOMAIN storage : k # fn.key /\ storage[k].expiresAt >= fn.at

-----------------------------------------------------------------------------
(* The course of one call *)

\* the state of the call in the terms of the specification; hashing, the
\* lookup and the audio processing all precede the first request
Phase(call) ==
    CASE call.pc \in {"hash", "noise", "compress"} -> "CacheCheck"
      [] call.pc \in {"fetch", "body"} -> "Inflight"
      [] call.pc = "sleep" -> "Retrying"
      [] call.pc = "done" -> "Success"
      [] call.pc = "failed" -> "Failed"
      [] OTHER -> "None"

\* the cache is looked up once, and not after a request has been issued
C25_CheckedOnce ==
    \A c \in DOMAIN calls :
        /\ calls[c].checks <= 1
        /\ calls[c].pc = "hash" => calls[c].checks = 0 /\ calls[c].requests = 0
        /\ (calls[c].requests > 0 \/ calls[c].pc = "done") => calls[c].checks = 1

\* the steps a call takes from one state to the next
C25_Edges ==
    \A c \in DOMAIN calls :
        LET p == Phase(calls[c])
            q == Phase(calls'[c])
        IN  calls'[c] # calls[c] =>
              IF p \in {"None", "Success", "Failed"}
              THEN \* terminal: the only step is the start of another call
                   /\ calls'[c].pc = "hash"
                   /\ started' = started + 1
                   /\ calls'[c].requests = 0 /\ calls'[c].checks = 0
              ELSE /\ p = "CacheCheck" => q \in {"CacheCheck", "Inflight", "Success", "Failed"}
                   /\ (p = "CacheCheck" /\ q = "Success") => calls'[c].held.present
                   /\ p = "Inflight" => q \in {"Inflight", "Success", "Retrying", "Failed"}
                   /\ (p = "Inflight" /\ q = "Inflight") =>
                          calls'[c].requests = calls[c].requests
                   /\ p = "Retrying" =>
                          /\ q = "Inflight"
                          /\ calls'[c].attempt = calls[c].attempt + 1
                          /\ calls'[c].requests = calls[c].requests + 1
                   /\ (q = "Retrying" /\ p # "Retrying") =>
                          /\ p = "Inflight"
                          /\ Len(calls'[c].fails) = Len(calls[c].fails) + 1
                   /\ calls'[c].requests # calls[c].requests =>
                          /\ calls'[c].requests = calls[c].requests + 1
                          /\ p \in {"CacheCheck", "Retrying"}
                          /\ q = "Inflight"
                   /\ calls'[c].checks # calls[c].checks =>
                          calls[c].pc = "hash" /\ calls[c].requests = 0

\* C25: a call goes from the cache check to a request in flight and from
\* there to success, to failure, or to a wait followed by the next request:
\* the cache is checked once and before any request, the wait is entered
\* only when an attempt in flight has failed and is left only for a new
\* attempt, a call that has returned or thrown takes no further step, and a
\* request is issued only when no request of the call is in flight.
C25_CallStateMachine == []C25_CheckedOnce /\ [][C25_Edges]_vars

\* a call that missed the cache, failed its first attempt, waited, and
\* succeeded with its second request
C25_Witness ==
    \E c \in DOMAIN calls :
        /\ calls[c].pc = "done"
        /\ calls[c].checks = 1 /\ ~calls[c].held.present
        /\ calls[c].requests = 2
        /\ Len(calls[c].sleeps) = 1 /\ Len(calls[c].fails) = 1

-----------------------------------------------------------------------------
(* Processing and the payload of the attempts *)

\* audio processing is under way only before the first request, and what
\* the requests carried is one payload: the recording as processed
C26_OnePayload ==
    \A c \in DOMAIN calls :
        LET call == calls[c]
        IN  /\ call.pc \in {"noise", "compress"} =>
                  call.kind = "transcribe" /\ call.requests = 0 /\ call.attempt = 0
            /\ Len(call.sent) = call.requests
            /\ \A i \in 1..Len(call.sent) : call.sent[i] = Payload(call)
            /\ (call.requests > 0 /\ call.kind = "transcribe") =>
                  /\ call.noise # "none"
                  /\ call.compress # "none" <=> ShouldCompress(call.input.size)

\* each processing step runs once, and nothing of it, nor the lookup, is
\* repeated once a request has been issued
C26_NoRepeat ==
    \A c \in DOMAIN calls :
        (calls'[c] # calls[c] /\ calls[c].pc \notin {"idle", "done", "failed"}) =>
            /\ calls'[c].noise # calls[c].noise =>
                  calls[c].pc = "noise" /\ calls[c].noise = "none"
            /\ calls'[c].compress # calls[c].compress =>
                  calls[c].pc = "compress" /\ calls[c].compress = "none"
            /\ (calls'[c].pc = "noise" /\ calls[c].pc # "noise") => calls[c].pc = "hash"
            /\ (calls'[c].pc = "compress" /\ calls[c].pc # "compress") => calls[c].pc = "noise"
            /\ calls[c].requests > 0 =>
                  /\ calls'[c].checks = calls[c].checks
                  /\ calls'[c].held = calls[c].held
                  /\ calls'[c].hash = calls[c].hash
                  /\ calls'[c].pc \notin {"hash", "noise", "compress"}

\* C26: within one transcribeAudio call noise reduction and compression run
\* at most once each, before attempt 0; every attempt sends the payload that
\* processing left; a retry neither processes again nor looks the cache up
\* again.
C26_ProcessedOnce == []C26_OnePayload /\ [][C26_NoRepeat]_vars

\* a recording above 200KB, filtered and compressed once, sent three times
C26_Witness ==
    \E c \in DOMAIN calls :
        /\ calls[c].kind = "transcribe"
        /\ calls[c].noise = "filtered" /\ calls[c].compress = "compressed"
        /\ calls[c].requests = 3 /\ calls[c].attempt = 2
        /\ calls[c].sent[1] = calls[c].sent[3]
        /\ calls[c].checks = 1

-----------------------------------------------------------------------------
(* Termination *)

\* the call has returned a result or thrown an AppError
Settled(c) == calls[c].pc \in {"done", "failed"}

\* C27: provided hashing, audio processing and the backoff sleeps complete
\* and the timeout timer fires while a request is pending, every call that
\* has been made eventually returns a result or throws an AppError, also
\* when the response headers arrive and the body never does.
C27_Termination == \A c \in Slots : (calls[c].pc = "hash") ~> Settled(c)

-----------------------------------------------------------------------------
(* The purge on write *)

\* after a set, and until the next operation, nothing stored had expired
\* before the time of the set
C28_PurgedBySet ==
    fn.name = "set" => \A k \in DOMAIN storage : storage[k].expiresAt >= fn.at

\* an entry that lies expired in the storage is not returned by a lookup
C28_ExpiredNotReturned ==
    (Lookup /\ fn'.key \in DOMAIN storage /\ fn'.at > storage[fn'.key].expiresAt) =>
        IF fn'.name = "get" THEN fn'.out = Null ELSE fn'.out = FALSE

\* C28: right after any Cache.set no entry under any key has an expiresAt
\* earlier than the time of the set; an expired entry that is still stored
\* between writes is never returned by get or has.
C28_LazyPurge == []C28_PurgedBySet /\ [][C28_ExpiredNotReturned]_vars

\* a set under one key has purged the entry of the other key, which had
\* expired since it was written
C28_Witness ==
    /\ fn.name = "set"
    /\ fn.key \in DOMAIN storage
    /\ \E k \in CacheKeys :
          /\ k # fn.key
          /\ fn.written[k].present
          /\ ExpiryOf(fn.written[k]) < fn.at
          /\ ExpiryOf(fn.written[k]) > fn.written[k].t
          /\ k \notin DOMAIN storage

-----------------------------------------------------------------------------
(* Writes to the cache by the calls *)

\* the step adds an entry under k or replaces the one there
Written(k) ==
    k \in DOMAIN storage' /\ (k \notin DOMAIN storage \/ storage'[k] # storage[k])

\* a call that has not returned, or that failed, has written nothing
NoWriteUnlessReturned ==
    \A c \in DOMAIN calls : calls[c].pc # "done" => calls[c].writes = 0

\* C29 as stated: the cache is written only on success; a call that ends in
\* Failed writes nothing, a failed attempt writes nothing, and every call
\* that returns a result has made exactly one cache write.
C29_WriteOnlyOnSuccess ==
    /\ NoWriteUnlessReturned
    /\ \A c \in DOMAIN calls : calls[c].pc = "done" => calls[c].writes = 1

\* the writes a call has made, by how it ended
C29_WritesByOutcome ==
    /\ NoWriteUnlessReturned
    /\ \A c \in DOMAIN calls :
          calls[c].pc = "done" =>
              calls[c].writes = IF calls[c].requests > 0 THEN 1 ELSE 0

\* an entry is added or replaced only by the step in which a call returns
\* its fetched result, and only under that call's key
C29_WriteStep ==
    /\ \A k \in DOMAIN storage' :
          Written(k) =>
              \E c \in DOMAIN calls :
                  /\ Succeeds(c)
                  /\ k = createKey(Prefix(calls[c].kind), createHash(calls[c].input))
                  /\ storage'[k] = ItemOf(calls'[c], now)
    /\ \A c \in DOMAIN calls :
          (calls'[c].writes # calls[c].writes /\ calls[c].pc \notin {"idle", "done", "failed"}) =>
              /\ Succeeds(c)
              /\ calls'[c].writes = calls[c].writes + 1
              /\ Written(KeyOf(calls[c])) \/ storage[KeyOf(calls[c])] = ItemOf(calls'[c], now)

\* C29 (amended): the cache is written only when a request succeeds: a call
\* that ends in Failed never adds or replaces an entry, a failed attempt
\* writes nothing, a call that returns a result it fetched has made exactly
\* one write, under its own namespaced key, and a call that returns a cached
\* value has made none.
C29_WriteOnlyOnFetchedSuccess == []C29_WritesByOutcome /\ [][C29_WriteStep]_vars

\* one call failed its first attempt, fetched "Aa" with its second and
\* cached it; the other call for the same message returned it from the cache
C29_Witness ==
    \E c, d \in DOMAIN calls :
        /\ calls[c].pc = "done" /\ calls[c].requests = 2 /\ Len(calls[c].fails) = 1
        /\ calls[c].writes = 1
        /\ KeyOf(calls[c]) \in DOMAIN storage
        /\ storage[KeyOf(calls[c])] = ItemOf(calls[c], calls[c].doneAt)
        /\ calls[d].pc = "done" /\ calls[d].requests = 0 /\ calls[d].writes = 0
        /\ calls[d].result = calls[c].result

-----------------------------------------------------------------------------
(* The timeout timers *)

\* the calls whose request has a timer pending, and those whose fetch has
\* not settled
PendingTimers == {c \in DOMAIN calls : calls[c].timer}
PendingFetches == {c \in DOMAIN calls : calls[c].pc = "fetch"}

\* no more timers are pending than fetches unsettled, and each pending
\* timer is that of an unsettled fetch
C30_TimersWithinFetches ==
    /\ Cardinality(PendingTimers) <= Cardinality(PendingFetches)
    /\ PendingTimers \subseteq PendingFetches

\* the step in which a fetch settles leaves no timer of that request; a
\* timer is set only with a new request; and a request is aborted by its
\* timer only while its fetch is pending
C30_TimerStep ==
    \A c \in DOMAIN calls :
        /\ (calls[c].pc = "fetch" /\ calls'[c] # calls[c]) =>
              ~calls'[c].timer /\ calls'[c].requests = calls[c].requests
        /\ (calls'[c].timer /\ ~calls[c].timer) =>
              /\ calls'[c].pc = "fetch"
              /\ calls'[c].requests = IF calls[c].pc \in {"idle", "done", "failed"}
                                      THEN 1 ELSE calls[c].requests + 1
        /\ (TimedOut(calls'[c]) /\ calls'[c].fails # calls[c].fails) =>
              calls[c].pc = "fetch" /\ calls[c].timer

\* C30: the timeout timer of a request is cancelled as soon as its fetch
\* settles, with a response or a rejection: afterwards no timer of that
\* request is pending and its abort cannot fire, so at any time the pending
\* timers are at most as many as the requests whose fetch has not settled.
C30_TimerCancelledOnSettle == []C30_TimersWithinFetches /\ [][C30_TimerStep]_vars

\* the response of one call has arrived and its timer is cancelled while
\* its body is read; the other call's fetch is pending with its timer
C30_Witness ==
    \E c, d \in DOMAIN calls :
        /\ calls[c].pc = "body" /\ ~calls[c].timer /\ calls[c].requests = 1
        /\ calls[d].pc = "fetch" /\ calls[d].timer
        /\ PendingTimers = {d}

-----------------------------------------------------------------------------
(* processAudio *)

\* a run of processAudio ends in this step
Finishes == fn.name = "App" /\ fn.pc # "idle" /\ fn'.pc = "idle"

\* a chat call exists only in a run whose transcription returned, and it is
\* made with, and sends, the transcript that was returned; no run is under
\* way while isProcessing could not be reset
C31_ChatAfterTranscript ==
    /\ calls[1].kind = "chat" =>
          /\ fn.pc = "chatting"
          /\ fn.got # NoValue
          /\ fn.chatArg = fn.got
          /\ calls[1].input = Message(fn.got.v)
          /\ \A i \in 1..Len(calls[1].sent) : calls[1].sent[i].input = Message(fn.got.v)
    /\ fn.pc = "transcribing" => fn.got = NoValue /\ fn.chatArg = NoValue
    /\ fn.pc = "idle" => ~fn.isProcessing

\* the steps of processAudio: sendChatMessage is called in the step in
\* which transcribeAudio has returned, with its transcript; a failed
\* transcription appends nothing, calls nothing and stores the error; every
\* end of a run leaves isProcessing false
C31_RunSteps ==
    /\ (fn.pc = "transcribing" /\ fn'.pc = "chatting") =>
          /\ calls[1].kind = "transcribe" /\ calls[1].pc = "done"
          /\ fn'.got = calls[1].result
          /\ calls'[1].kind = "chat" /\ calls'[1].requests = 0
          /\ calls'[1].input = Message(calls[1].result.v)
    /\ (fn.pc = "transcribing" /\ fn'.pc = "idle") =>
          /\ calls[1].kind = "transcribe" /\ calls[1].pc = "failed"
          /\ calls'[1].kind # "chat"
          /\ fn'.chatArg = NoValue
          /\ fn'.messages = fn.messages /\ fn'.appended = fn.appended
          /\ fn'.error # NoError
          /\ fn'.error = calls[1].thrown \/ fn'.error.originalError = calls[1].thrown
    /\ Finishes => ~fn'.isProcessing

\* C31: in processAudio the chat request is issued only after transcription
\* has succeeded and carries exactly its transcript; when transcription
\* fails no chat request is issued, no message is appended and the error is
\* stored for display; however the run ends, isProcessing is false then.
C31_ProcessAudioOrder == []C31_ChatAfterTranscript /\ [][C31_RunSteps]_vars

\* the first run of a recording ended with a failed transcription: nothing
\* appended, no chat call, the error stored, isProcessing false
C31_Witness ==
    /\ fn.name = "App" /\ fn.pc = "idle" /\ fn.run = 1
    /\ fn.got = NoValue /\ fn.chatArg = NoValue
    /\ fn.messages = <<>>
    /\ fn.error # NoError /\ fn.error.originalError.type = "NETWORK_ERROR"
    /\ fn.retryAction.present
    /\ ~fn.isProcessing

-----------------------------------------------------------------------------
(* User messages per recording *)

\* the user messages appended for recording r, over all runs of processAudio
AppendedFor(r) == {i \in 1..Len(fn.appended) : fn.appended[i] = r}

\* C32: for each recording at most one user message is appended to the
\* conversation, the first run of processAudio and every Retry of that
\* recording counted together; a Retry after a failed chat step does not
\* append the user message again.
C32_OneUserMessagePerRecording ==
    fn.name = "App" => \A r \in 1..MaxRecordings : Cardinality(AppendedFor(r)) <= 1

====
